---- MODULE Spec2Model ----
(***************************************************************************)
(* Hotel-management dashboard (nexus-frontend).                            *)
(*                                                                         *)
(*   - the access guard  (middleware)                                      *)
(*   - the analytics aggregator  (processGraphQLData)                      *)
(*   - the dashboard fetch layer  (HotelDashboard / fetchDashboardData)    *)
(*                                                                         *)
(* Each part has its own specification over the variables it uses; the     *)
(* variables of the other parts keep the value their Init gives them.      *)
(***************************************************************************)
EXTENDS Integers, Sequences, FiniteSets, TLC

VARIABLES
    \* ---- access guard: one request through middleware
    pathname,       \* request.nextUrl.pathname, a sequence of text pieces
    cookie,         \* the session cookie of the request
    token,          \* what getToken resolved to: "none" (null) or "jwt"
    response,       \* Pending, or what middleware returned
    hops,           \* number of redirects the browser has followed
    \* ---- aggregator: one call of processGraphQLData
    hotels,         \* hotelResponse.hotel.getHotels
    rooms,          \* roomsResponse.rooms
    bookings,       \* bookingsResponse.bookings
    dateRange,      \* [from, to]
    result,         \* Pending, Threw, or the DashboardData returned
    again,          \* the same for a second call on the same responses
    \* ---- HotelDashboard component
    ready,          \* selectedHotel?.id and adminId are both set
    uiRange,        \* the dateRange state of the component
    isLoading,
    dashboardData,  \* Null or a DashboardData
    fetches,        \* the fetchDashboardData calls started so far
    errorsLogged,   \* number of console.error calls of fetchDashboardData
    \* ---- BookingAnalytics component and the bookings the backend holds
    hotelSelected,  \* selectedHotel?.id is set
    serverCount,    \* number of bookings of the hotel on the backend
    bookingCount,
    isAutoRefreshEnabled,
    hasNewBookings,
    calendarBookings, \* the bookings state of the component
    bookingsRef,    \* bookingsRef.current
    roomFetches,    \* the fetchRooms calls
    roomDetails,    \* the ids of the rooms held in the roomDetails state
    callbackDetails,\* the roomDetails that checkForNewBookings closes over
    fills,          \* rooms whose details a booking click is fetching
    createdSinceFetch, \* a booking was created after the last list response
    bookingsLoading,\* isLoading of the component
    polls,          \* the checkForNewBookings calls that sent their request
    lists,          \* the fetchBookings calls
    toasts,         \* number of toast calls, by title
    pollErrors,     \* number of console.error calls of the component
    \* ---- BookingDetails component and the booking the backend holds
    serverBooking,  \* the booking as the backend holds it
    bookingData,    \* Null or the booking as the component holds it
    loading,
    statusLoading,
    extendLoading,
    collectPaymentLoading,
    detailsFetch,   \* the fetchBookingDetails call: "idle", "flight" or its end
    mutations,      \* the calls of the four mutation handlers
    detailToasts,   \* number of toast calls, by title
    detailErrors    \* number of console.error calls of the component

guardVars == <<pathname, cookie, token, response, hops>>
aggVars   == <<hotels, rooms, bookings, dateRange, result, again>>
dashVars  == <<ready, uiRange, isLoading, dashboardData, fetches, errorsLogged>>
pollVars  == <<hotelSelected, serverCount, bookingCount, isAutoRefreshEnabled,
               hasNewBookings, calendarBookings, bookingsRef, bookingsLoading,
               polls, lists, roomFetches, roomDetails, callbackDetails,
               fills, createdSinceFetch, toasts, pollErrors>>
detailsVars == <<serverBooking, bookingData, loading, statusLoading,
                 extendLoading, collectPaymentLoading, detailsFetch,
                 mutations, detailToasts, detailErrors>>
vars      == <<guardVars, aggVars, dashVars, pollVars, detailsVars>>

(***************************************************************************)
(* Small helpers                                                           *)
(***************************************************************************)
Range(s) == {s[i] : i \in 1..Len(s)}

SeqsUpTo(S, n) == UNION {[1..k -> S] : k \in 0..n}

\* Values that stand for "not yet returned", null and a thrown error; every
\* other value of these variables is a record with its own `kind`.
Pending == [kind |-> "pending"]
Null    == [kind |-> "null"]
Threw   == [kind |-> "throw"]

(***************************************************************************)
(* ACCESS GUARD                                                            *)
(*                                                                         *)
(* A pathname is a sequence of text pieces: "/" and words.  Its text is    *)
(* the concatenation of the pieces, so <<"/","dashboard","x">> is          *)
(* /dashboardx and <<"/","dashboard","/","x">> is /dashboard/x.  No word   *)
(* is a prefix of another word, so two pathnames have the same text exactly*)
(* when they are the same sequence and String.startsWith is the prefix     *)
(* relation on sequences.                                                  *)
(***************************************************************************)
Words == {"dashboard", "profile", "settings", "admin", "hotel-setup",
          "hotels", "login", "signup", "forgot-password", "bookings", "x"}

Pieces == Words \cup {"/"}

protectedPaths == { <<"/">>,
                    <<"/", "dashboard">>,
                    <<"/", "profile">>,
                    <<"/", "settings">>,
                    <<"/", "admin">>,
                    <<"/", "hotel-setup">>,
                    <<"/", "hotels", "/", "settings">> }

authRoutes == { <<"/", "login">>,
                <<"/", "signup">>,
                <<"/", "forgot-password">> }

\* String.prototype.startsWith
startsWith(s, prefix) ==
    /\ Len(prefix) <= Len(s)
    /\ \A i \in 1..Len(prefix) : s[i] = prefix[i]

\* the callback given to protectedPaths.some / authRoutes.some
MutPathMatches(path, p) == path = p \/ startsWith(path, p)
pathMatches(path, p) == path = p \/ startsWith(path, p \o <<"/">>)

isProtectedPath(path) == \E p \in protectedPaths : pathMatches(path, p)

isAuthRoute(path) == \E p \in authRoutes : pathMatches(path, p)

RedirectLogin(path) ==
    [kind |-> "redirect", to |-> <<"/", "login">>, callbackUrl |-> path]

RedirectDashboard ==
    [kind |-> "redirect", to |-> <<"/", "dashboard">>, callbackUrl |-> <<>>]

NextResponseNext == [kind |-> "next", to |-> <<>>, callbackUrl |-> <<>>]

\* a guard that sends every request without a token to the login page
MutMiddlewareLoginFirst(path, tok) ==
    IF tok = "none" THEN RedirectLogin(path)
    ELSE IF isAuthRoute(path) /\ tok = "jwt" THEN RedirectDashboard
    ELSE NextResponseNext

\* a guard that forgets the token test of the second branch
MutMiddleware(path, tok) ==
    IF isProtectedPath(path) /\ tok = "none" THEN RedirectLogin(path)
    ELSE IF isAuthRoute(path) THEN RedirectDashboard
    ELSE NextResponseNext

middleware(path, tok) ==
    IF isProtectedPath(path) /\ tok = "none" THEN RedirectLogin(path)
    ELSE IF isAuthRoute(path) /\ tok = "jwt" THEN RedirectDashboard
    ELSE NextResponseNext

\* Longest pathname drawn, in pieces.
MaxPathLen == 4

\* The pathnames a request can carry: they begin with "/" and hold no "//"
\* (Next.js answers a URL with repeated slashes by a redirect to the
\* collapsed URL, so such a pathname does not reach middleware).
Pathnames ==
    { p \in SeqsUpTo(Pieces, MaxPathLen) :
        /\ Len(p) >= 1
        /\ p[1] = "/"
        /\ \A i \in 1..(Len(p) - 1) : ~(p[i] = "/" /\ p[i + 1] = "/") }

\* the session cookie: none, one that decodes to a JWT, one that does not
\* decode (forged, expired, encrypted under another secret)
Cookies == {"absent", "valid", "undecodable"}

\* a lookup that hands on whatever cookie it finds, decoded or not
MutGetToken(c) == IF c = "absent" THEN "none" ELSE "jwt"

\* lines 28-32: getToken of next-auth/jwt resolves to null when there is no
\* session cookie and when decoding the cookie fails, never rejects
getToken(c) == IF c = "valid" THEN "jwt" ELSE "none"

InitGuard ==
    /\ pathname \in Pathnames
    /\ cookie \in Cookies
    /\ token = getToken(cookie)
    /\ response = Pending
    /\ hops = 0

\* one run of middleware on the request
Middleware ==
    /\ response = Pending
    /\ response' = middleware(pathname, token)
    /\ UNCHANGED <<pathname, cookie, token, hops, aggVars, dashVars, pollVars, detailsVars>>

\* Redirects the browser follows before it gives up.
MaxHops == 3

\* lines 48 and 54: the browser follows NextResponse.redirect(url) with a
\* new request for url's pathname, carrying the same cookie
FollowRedirect ==
    /\ response # Pending
    /\ response.kind = "redirect"
    /\ hops < MaxHops
    /\ pathname' = response.to
    /\ response' = Pending
    /\ hops' = hops + 1
    /\ UNCHANGED <<cookie, token, aggVars, dashVars, pollVars, detailsVars>>

(***************************************************************************)
(* ANALYTICS AGGREGATOR  (processGraphQLData)                              *)
(*                                                                         *)
(* Time.  A Date is its time value, an integer number of ticks since the   *)
(* epoch, or NaN for an Invalid Date.  Day is the number of ticks in 24    *)
(* hours and TimeClip the largest magnitude a time value can have (in      *)
(* ECMAScript 86,400,000 ms and 8.64e15 ms); both are scaled down.         *)
(* A date string of a record is represented by the Date that               *)
(* `new Date(string)` yields: a time value, or NaN when the string is      *)
(* absent or does not parse.                                               *)
(***************************************************************************)
Day == 2

TimeClip == 16

NaN == 0 - 1000000

\* relational comparison of two Dates (through valueOf): false on NaN
DateGeq(a, b) == a # NaN /\ b # NaN /\ a >= b
DateLeq(a, b) == a # NaN /\ b # NaN /\ a <= b

\* ECMAScript TimeClip: a time value out of range is NaN
MakeDate(t) == IF t > TimeClip \/ t < 0 - TimeClip THEN NaN ELSE t

\* date-fns subDays(date, amount) = addDays(date, -amount):
\* setDate(getDate() - amount), `amount` calendar days earlier
subDays(date, amount) ==
    IF date = NaN THEN NaN ELSE MakeDate(date - amount * Day)

\* Math.floor(n / d), Math.ceil(n / d) and Math.round(n / d) for d > 0
FloorDiv(n, d) == n \div d
CeilDiv(n, d) == 0 - ((0 - n) \div d)
RoundDiv(n, d) == (2 * n + d) \div (2 * d)

\* Number(x) || 0 : an absent or non-numeric amount counts 0
NumberOrZero(x) == IF x = NaN THEN 0 ELSE x

RECURSIVE SumSeq(_)
SumSeq(s) == IF s = <<>> THEN 0 ELSE s[1] + SumSeq(Tail(s))

CheckInWithin(b, lo, hi) ==
    DateGeq(b.checkInDate, lo) /\ DateLeq(b.checkInDate, hi)

\* a filter whose upper bound is exclusive
MutFilteredBookings(bks, dr) ==
    SelectSeq(bks, LAMBDA b :
        DateGeq(b.checkInDate, dr.from) /\ b.checkInDate # NaN
        /\ b.checkInDate < dr.to)

\* lines 572-576
FilteredBookings(bks, dr) ==
    SelectSeq(bks, LAMBDA b : CheckInWithin(b, dr.from, dr.to))

\* lines 581-583
PreviousPeriodStart(dr) == subDays(dr.from, dr.to - dr.from)
PreviousPeriodEnd(dr) == subDays(dr.from, 1)

\* lines 585-588
PreviousPeriodBookings(bks, dr) ==
    SelectSeq(bks, LAMBDA b :
        CheckInWithin(b, PreviousPeriodStart(dr), PreviousPeriodEnd(dr)))

\* a change that is 0 as well when the current period is empty
MutPercentChangeEmpty(cur, prev) ==
    IF prev # 0 /\ cur # 0 THEN RoundDiv((cur - prev) * 100, prev) ELSE 0

\* a change that reports 100 percent growth over an empty baseline
MutPercentChangeGrowth(cur, prev) ==
    IF prev # 0 THEN RoundDiv((cur - prev) * 100, prev) ELSE 100

\* lines 591-593 and 602-604 with the Math.round of lines 830 and 834
PercentChange(cur, prev) ==
    IF prev # 0 THEN RoundDiv((cur - prev) * 100, prev) ELSE 0

\* lines 596-600
Revenue(bks) ==
    SumSeq([i \in 1..Len(bks) |-> NumberOrZero(bks[i].totalAmount)])

\* line 607
ActiveRooms(rms) == Len(SelectSeq(rms, LAMBDA r : r.isActive))

\* line 608
OccupiedRooms(fbs) == Cardinality({fbs[i].roomId : i \in 1..Len(fbs)})

\* line 609
OccupancyRate(fbs, rms) ==
    IF ActiveRooms(rms) # 0
    THEN RoundDiv(OccupiedRooms(fbs) * 100, ActiveRooms(rms))
    ELSE 0

\* a night count without the floor of one night
MutBookingNights(b) ==
    IF b.checkInDate = NaN \/ b.checkOutDate = NaN THEN 0
    ELSE CeilDiv(b.checkOutDate - b.checkInDate, Day)

\* lines 613-616: the nights one booking adds to totalNights
BookingNights(b) ==
    IF b.checkInDate = NaN \/ b.checkOutDate = NaN THEN 1
    ELSE LET nights == CeilDiv(b.checkOutDate - b.checkInDate, Day)
         IN  IF nights > 0 THEN nights ELSE 1

\* lines 612-617
TotalNights(fbs) == SumSeq([i \in 1..Len(fbs) |-> BookingNights(fbs[i])])

\* an average daily rate that truncates instead of rounding
MutAverageDailyRate(fbs) ==
    IF TotalNights(fbs) # 0
    THEN FloorDiv(Revenue(fbs), TotalNights(fbs))
    ELSE 0

\* line 619
AverageDailyRate(fbs) ==
    IF TotalNights(fbs) # 0
    THEN RoundDiv(Revenue(fbs), TotalNights(fbs))
    ELSE 0

\* a room-night count that forgets the active-room factor
MutTotalRoomNights(rms, dr) == CeilDiv(dr.to - dr.from, Day)

\* line 622
TotalRoomNights(rms, dr) == ActiveRooms(rms) * CeilDiv(dr.to - dr.from, Day)

\* line 623
RevPAR(fbs, rms, dr) ==
    IF TotalRoomNights(rms, dr) # 0
    THEN RoundDiv(Revenue(fbs), TotalRoomNights(rms, dr))
    ELSE 0

\* lines 799-810: the guest emails in the order the forEach first meets them
\* (the keys of guestBookingCount); a booking without guest email is skipped
RECURSIVE GuestKeys(_)
GuestKeys(fbs) ==
    IF fbs = <<>> THEN <<>>
    ELSE LET init == GuestKeys(SubSeq(fbs, 1, Len(fbs) - 1))
             email == fbs[Len(fbs)].email
         IN  IF email = "" \/ email \in Range(init) THEN init
             ELSE Append(init, email)

\* guestBookingCount[email] and guestSpending[email] after the forEach
GuestBookingCount(fbs, email) ==
    Len(SelectSeq(fbs, LAMBDA b : b.email = email))

GuestSpending(fbs, email) ==
    Revenue(SelectSeq(fbs, LAMBDA b : b.email = email))

\* lines 812-816: the mapped entry of one email (its display name, built
\* from the guest's first and last name, is left out)
GuestItem(fbs, email) ==
    [email      |-> email,
     bookings   |-> GuestBookingCount(fbs, email),
     totalSpent |-> GuestSpending(fbs, email)]

\* Array.prototype.sort with (a, b) => b.totalSpent - a.totalSpent: a stable
\* sort, so entries of equal spend keep their order
RECURSIVE SortBySpentDesc(_)
SortBySpentDesc(s) ==
    IF s = <<>> THEN <<>>
    ELSE LET init == SortBySpentDesc(SubSeq(s, 1, Len(s) - 1))
             x    == s[Len(s)]
             keep == Len(SelectSeq(init,
                         LAMBDA y : y.totalSpent >= x.totalSpent))
         IN  SubSeq(init, 1, keep) \o <<x>> \o SubSeq(init, keep + 1, Len(init))

\* the argument of slice(0, 10) in line 817
TopGuestLimit == 10

\* lines 812-816: one entry per key, in key order
GuestItems(fbs) ==
    LET keys == GuestKeys(fbs)
    IN  [i \in 1..Len(keys) |-> GuestItem(fbs, keys[i])]

\* Array.prototype.slice(0, n)
SliceTo(s, n) == SubSeq(s, 1, IF Len(s) < n THEN Len(s) ELSE n)

\* a top-guest list that is truncated before it is sorted
MutTopGuests(fbs) ==
    SortBySpentDesc(SliceTo(GuestItems(fbs), TopGuestLimit))

\* lines 798-817
TopGuests(fbs) ==
    SliceTo(SortBySpentDesc(GuestItems(fbs)), TopGuestLimit)

(***************************************************************************)
(* Chart series.  A category name that is absent is "", an absent number   *)
(* is NaN.  The local time zone is taken to be UTC, so a calendar day is   *)
(* Day ticks from a multiple of Day.                                       *)
(***************************************************************************)
\* Days in a year, scaled down like Day: 'MMM dd' repeats after so many.
YearDays == 5

\* format(date, 'yyyy-MM-dd'): the calendar day of a valid Date
FormatIsoDay(t) == t \div Day

\* format(date, 'MMM dd'): month and day, without the year
FormatMonthDay(t) == (t \div Day) % YearDays

\* lines 626-635, 638-647, 650-659: the names pushed by the reduce, in the
\* order it first meets them
RECURSIVE NamesInOrder(_)
NamesInOrder(names) ==
    IF names = <<>> THEN <<>>
    ELSE LET init == NamesInOrder(SubSeq(names, 1, Len(names) - 1))
             name == names[Len(names)]
         IN  IF name \in Range(init) THEN init ELSE Append(init, name)

\* a reduce that counts every record under the first name pushed
MutCountByName(names) ==
    LET keys == NamesInOrder(names)
    IN  [i \in 1..Len(keys) |->
            [name  |-> keys[i],
             value |-> IF i = 1 THEN Len(names) ELSE 1]]

\* the ChartDataItem list of such a reduce over the records' names
CountByName(names) ==
    LET keys == NamesInOrder(names)
    IN  [i \in 1..Len(keys) |->
            [name  |-> keys[i],
             value |-> Len(SelectSeq(names, LAMBDA n : n = keys[i]))]]

\* lines 626-635
RoomTypeDistribution(rms) ==
    CountByName([i \in 1..Len(rms) |-> rms[i].roomType])

\* line 639: booking.bookingSource || 'Direct'
SourceOrDirect(b) == IF b.bookingSource = "" THEN "Direct" ELSE b.bookingSource

\* lines 638-647
BookingSources(fbs) ==
    CountByName([i \in 1..Len(fbs) |-> SourceOrDirect(fbs[i])])

\* lines 650-659
BookingStatus(fbs) ==
    CountByName([i \in 1..Len(fbs) |-> fbs[i].bookingStatus])

\* Array.prototype.sort with a comparator on `date`, ascending and stable
RECURSIVE SortByDate(_)
SortByDate(s) ==
    IF s = <<>> THEN <<>>
    ELSE LET init == SortByDate(SubSeq(s, 1, Len(s) - 1))
             x    == s[Len(s)]
             keep == Len(SelectSeq(init, LAMBDA y : y.date <= x.date))
         IN  SubSeq(init, 1, keep) \o <<x>> \o SubSeq(init, keep + 1, Len(init))

\* lines 662-676: one bucket per 'yyyy-MM-dd' of the check-ins, relabelled
\* 'MMM dd' and sorted by that label
BookingTrends(fbs) ==
    LET days == NamesInOrder([i \in 1..Len(fbs) |->
                                 FormatIsoDay(fbs[i].checkInDate)])
        OnDay(d) == SelectSeq(fbs, LAMBDA b : FormatIsoDay(b.checkInDate) = d)
    IN  SortByDate([i \in 1..Len(days) |->
            [date     |-> days[i] % YearDays,
             bookings |-> Len(OnDay(days[i])),
             revenue  |-> Revenue(OnDay(days[i]))]])

\* lines 793-796
RevenueTrends(fbs) ==
    LET trends == BookingTrends(fbs)
    IN  [i \in 1..Len(trends) |->
            [date |-> trends[i].date, revenue |-> trends[i].revenue]]

\* lines 679-688
RevenueByRoomType(fbs) ==
    LET keys == NamesInOrder([i \in 1..Len(fbs) |-> fbs[i].roomType])
    IN  [i \in 1..Len(keys) |->
            [name  |-> keys[i],
             value |-> Revenue(SelectSeq(fbs,
                           LAMBDA b : b.roomType = keys[i]))]]

\* lines 691-692: Number(numberOfGuests) || 1
TotalGuests(fbs) ==
    SumSeq([i \in 1..Len(fbs) |->
               IF fbs[i].numberOfGuests = NaN \/ fbs[i].numberOfGuests = 0
               THEN 1 ELSE fbs[i].numberOfGuests])

\* lines 695-703
GuestTypes(fbs) ==
    LET newGuests == Cardinality({fbs[i].email : i \in 1..Len(fbs)})
        returning == Len(fbs) - newGuests
    IN  << [name |-> "New", value |-> newGuests],
           [name |-> "Returning",
            value |-> IF returning > 0 THEN returning ELSE 0] >>

\* Math.round(n * percent / 100) of the mock series
Share(n, percent) == RoundDiv(n * percent, 100)

\* lines 706-712
GuestSatisfaction(n) ==
    << [name |-> "5 Stars", value |-> Share(n, 60)],
       [name |-> "4 Stars", value |-> Share(n, 30)],
       [name |-> "3 Stars", value |-> Share(n, 7)],
       [name |-> "2 Stars", value |-> Share(n, 2)],
       [name |-> "1 Star",  value |-> Share(n, 1)] >>

\* lines 715-722
GuestDemographics(n) ==
    << [name |-> "United States",  value |-> Share(n, 40)],
       [name |-> "Canada",         value |-> Share(n, 15)],
       [name |-> "United Kingdom", value |-> Share(n, 12)],
       [name |-> "Australia",      value |-> Share(n, 8)],
       [name |-> "Germany",        value |-> Share(n, 5)],
       [name |-> "Other",          value |-> Share(n, 20)] >>

\* lines 785-790
PaymentMethods(n) ==
    << [name |-> "Credit Card", value |-> Share(n, 70)],
       [name |-> "Debit Card",  value |-> Share(n, 15)],
       [name |-> "PayPal",      value |-> Share(n, 10)],
       [name |-> "Cash",        value |-> Share(n, 5)] >>

\* lines 820-825
StayDuration(n) ==
    << [name |-> "1-3 days",  value |-> Share(n, 60)],
       [name |-> "4-7 days",  value |-> Share(n, 30)],
       [name |-> "8-14 days", value |-> Share(n, 7)],
       [name |-> "15+ days",  value |-> Share(n, 3)] >>

\* lines 725-730
RoomStatus(rms) ==
    LET Count(st) == Len(SelectSeq(rms, LAMBDA r : r.status = st))
    IN  << [name |-> "Available",   value |-> Count("AVAILABLE")],
           [name |-> "Occupied",    value |-> Count("OCCUPIED")],
           [name |-> "Maintenance", value |-> Count("MAINTENANCE")],
           [name |-> "Cleaning",    value |-> Count("CLEANING")] >>

\* lines 733-739
RoomTypePerformance(fbs, rms) ==
    LET types == RoomTypeDistribution(rms)
    IN  [i \in 1..Len(types) |->
            [name  |-> types[i].name,
             value |-> Len(SelectSeq(fbs,
                           LAMBDA b : b.roomType = types[i].name))]]

(***************************************************************************)
(* Math.random.  The generator's state at the call is not an input of the  *)
(* aggregator: `seed` stands for it, and the k-th                          *)
(* Math.floor(Math.random() * 100) of one call is a value of 0..99 that    *)
(* depends on the seed and on k.                                           *)
(***************************************************************************)
Seeds == {3, 58}

RandomFill(seed, k) == (seed + 37 * k) % 100

\* line 743: hotel.floorCount || 4
FloorCount(h) == IF h.floorCount # 0 THEN h.floorCount ELSE 4

\* line 745
FloorRooms(rms, i) == SelectSeq(rms, LAMBDA r : r.floor = i)

\* the calls of Math.random made for the floors 1..i (line 749)
FloorDraws(rms, i) == Cardinality({j \in 1..i : FloorRooms(rms, j) = <<>>})

\* lines 742-755
FloorOccupancy(h, rms, seed) ==
    [i \in 1..FloorCount(h) |->
        LET floorRooms == FloorRooms(rms, i)
            occupied   == SelectSeq(floorRooms, LAMBDA r : r.status = "OCCUPIED")
        IN  [name  |-> i,
             value |-> IF Len(floorRooms) > 0
                       THEN RoundDiv(Len(occupied) * 100, Len(floorRooms))
                       ELSE RandomFill(seed, FloorDraws(rms, i))]]

\* lines 759-760 and 781: the values currentDate takes in the loop
TimelineDates(dr) ==
    IF DateLeq(dr.from, dr.to)
    THEN [n \in 1..(FloorDiv(dr.to - dr.from, Day) + 1) |->
             dr.from + (n - 1) * Day]
    ELSE <<>>

\* lines 762-770: the filtered bookings counted at currentDate
DateBookings(fbs, cur) ==
    SelectSeq(fbs, LAMBDA b :
        DateGeq(cur, b.checkInDate) /\ DateLeq(cur, b.checkOutDate))

\* a timeline that fills in random values whatever the active-room count
MutOccupancyTimeline(fbs, h, rms, dr, seed) ==
    LET dates == TimelineDates(dr)
    IN  [n \in 1..Len(dates) |->
            [date      |-> FormatMonthDay(dates[n]),
             occupancy |-> RandomFill(seed, FloorDraws(rms, FloorCount(h)) + n)]]

\* lines 757-782
OccupancyTimeline(fbs, h, rms, dr, seed) ==
    LET dates == TimelineDates(dr)
    IN  [n \in 1..Len(dates) |->
            [date      |-> FormatMonthDay(dates[n]),
             occupancy |->
                IF ActiveRooms(rms) > 0
                THEN RoundDiv(Len(DateBookings(fbs, dates[n])) * 100,
                              ActiveRooms(rms))
                ELSE RandomFill(seed, FloorDraws(rms, FloorCount(h)) + n)]]

\* selectedHotel?.id of the component
SelectedHotelId == "h1"

\* lines 567-568; called with at least one hotel
FindHotel(hs) ==
    IF \E i \in 1..Len(hs) : hs[i].id = SelectedHotelId
    THEN hs[CHOOSE i \in 1..Len(hs) :
                /\ hs[i].id = SelectedHotelId
                /\ \A j \in 1..(i - 1) : hs[j].id # SelectedHotelId]
    ELSE hs[1]

\* lines 827-840
Overview(h, rms, bks, dr) ==
    LET fbs  == FilteredBookings(bks, dr)
        prev == PreviousPeriodBookings(bks, dr)
    IN  [totalBookings          |-> Len(fbs),
         totalBookingsChange    |-> PercentChange(Len(fbs), Len(prev)),
         occupancyRate          |-> OccupancyRate(fbs, rms),
         occupancyRateChange    |-> 0,
         totalRevenue           |-> Revenue(fbs),
         totalRevenueChange     |-> PercentChange(Revenue(fbs), Revenue(prev)),
         averageDailyRate       |-> AverageDailyRate(fbs),
         averageDailyRateChange |-> 0,
         revPAR                 |-> RevPAR(fbs, rms, dr),
         totalGuests            |-> TotalGuests(fbs),
         totalRooms             |-> IF h.roomCount # 0 THEN h.roomCount
                                    ELSE Len(rms)]

\* With no hotel in the response `hotel` is undefined and line 743
\* (hotel.floorCount) throws a TypeError.
AggregationThrows(hs) == hs = <<>>

\* lines 557-859
processGraphQLData(hs, rms, bks, dr, seed) ==
    IF AggregationThrows(hs) THEN Threw
    ELSE LET h   == FindHotel(hs)
             fbs == FilteredBookings(bks, dr)
         IN  [kind                 |-> "data",
              overview             |-> Overview(h, rms, bks, dr),
              recentBookings       |-> fbs,
              roomTypeDistribution |-> RoomTypeDistribution(rms),
              bookingTrends        |-> BookingTrends(fbs),
              bookingSources       |-> BookingSources(fbs),
              bookingStatus        |-> BookingStatus(fbs),
              roomStatus           |-> RoomStatus(rms),
              roomTypePerformance  |-> RoomTypePerformance(fbs, rms),
              floorOccupancy       |-> FloorOccupancy(h, rms, seed),
              occupancyTimeline    |-> OccupancyTimeline(fbs, h, rms, dr, seed),
              guestTypes           |-> GuestTypes(fbs),
              stayDuration         |-> StayDuration(Len(fbs)),
              guestSatisfaction    |-> GuestSatisfaction(Len(fbs)),
              topGuests            |-> TopGuests(fbs),
              guestDemographics    |-> GuestDemographics(Len(fbs)),
              revenueTrends        |-> RevenueTrends(fbs),
              revenueByRoomType    |-> RevenueByRoomType(fbs),
              paymentMethods       |-> PaymentMethods(Len(fbs))]

(***************************************************************************)
(* Inputs of the aggregator                                                *)
(***************************************************************************)
\* Largest number of bookings, and of rooms, in a drawn response.
MaxBookings == 2
MaxRooms == 2

TheHotel == [id |-> SelectedHotelId, roomCount |-> 0, floorCount |-> 1]

\* the fields of a booking and of a room that an input family leaves alone
PlainBooking ==
    [bookingSource : {""}, bookingStatus : {"CONFIRMED"},
     roomType : {"Deluxe"}, numberOfGuests : {NaN}]

PlainRoom == [roomType : {"Deluxe"}, status : {"AVAILABLE"}, floor : {1}]

\* the records of `base` with the fields of every record of `more` added
Extended(base, more) ==
    {[f \in DOMAIN b \cup DOMAIN m |-> IF f \in DOMAIN b THEN b[f] ELSE m[f]] :
        b \in base, m \in more}

ActiveRoom(id) ==
    [id |-> id, isActive |-> TRUE, roomType |-> "Deluxe",
     status |-> "AVAILABLE", floor |-> 1]

\* Date ranges: `from` on and off a day boundary, lengths of no ticks, less
\* than a day, a day, more than a day, and one so long that
\* previousPeriodStart leaves the range of time values.
LongLen == TimeClip - 2 * Day
RangeFroms == {Day + 1, 2 * Day}
RangeLens == {0, 1, Day, Day + 1, LongLen}
DateRanges == {[from |-> f, to |-> f + l] : f \in RangeFroms, l \in RangeLens}

OneDayRange == [from |-> Day + 1, to |-> 2 * Day + 1]

\* (a) check-in dates around the range and the period before it
CheckIns == {NaN} \cup (0 .. (3 * Day + 1))

BookingsByCheckIn ==
    Extended([roomId : {"r1"}, email : {"a@x"}, checkInDate : CheckIns,
              checkOutDate : {NaN}, totalAmount : {100}], PlainBooking)

\* (b) bookings inside the range, of every kind of stay and amount
CheckOuts(ci) == {NaN, ci - 1, ci + 1, ci + Day + 1, ci + 3 * Day}

BookingsByStay(dr) ==
    UNION { Extended([roomId : {"r1"}, email : {"a@x"}, checkInDate : {ci},
                      checkOutDate : CheckOuts(ci), totalAmount : {50, 100}],
                     PlainBooking)
            : ci \in {dr.from, dr.to} }

RoomLists ==
    SeqsUpTo(Extended([id : {"r1"}, isActive : BOOLEAN], PlainRoom), MaxRooms)

ActiveRoomLists ==
    {<<>>, <<ActiveRoom("r1")>>, <<ActiveRoom("r1"), ActiveRoom("r2")>>}

\* (c) bookings of several rooms, inside and before the range, with absent
\* amounts and absent guest emails
BookingsByRoom ==
    UNION { Extended([roomId : {"r1", "r2", "r3"}, email : {g.email},
                      checkInDate : {OneDayRange.from, OneDayRange.from - Day},
                      checkOutDate : {NaN}, totalAmount : {g.amount}],
                     PlainBooking)
            : g \in {[email |-> "", amount |-> NaN],
                     [email |-> "b@x", amount |-> 100]} }

InputsByCheckIn ==
    /\ hotels = <<TheHotel>>
    /\ rooms = <<ActiveRoom("r1")>>
    /\ dateRange \in DateRanges
    /\ bookings \in SeqsUpTo(BookingsByCheckIn, MaxBookings)

InputsByStay ==
    /\ hotels = <<TheHotel>>
    /\ rooms \in ActiveRoomLists
    /\ \E dr \in {r \in DateRanges : r.from = Day + 1} :
          /\ dateRange = dr
          /\ bookings \in SeqsUpTo(BookingsByStay(dr), MaxBookings)

InputsByRoom ==
    /\ hotels \in {<<>>, <<TheHotel>>}
    /\ rooms \in RoomLists
    /\ dateRange = OneDayRange
    /\ bookings \in SeqsUpTo(BookingsByRoom, MaxBookings)

InitAgg ==
    /\ result = Pending
    /\ again = Pending
    /\ (InputsByCheckIn \/ InputsByStay \/ InputsByRoom)

\* one call of processGraphQLData
Process ==
    /\ result = Pending
    /\ \E seed \in Seeds :
          result' = processGraphQLData(hotels, rooms, bookings, dateRange, seed)
    /\ UNCHANGED <<hotels, rooms, bookings, dateRange, again>>
    /\ UNCHANGED <<guardVars, dashVars, pollVars, detailsVars>>

\* a second call on the same responses and the same date range
ProcessAgain ==
    /\ result # Pending
    /\ again = Pending
    /\ \E seed \in Seeds :
          again' = processGraphQLData(hotels, rooms, bookings, dateRange, seed)
    /\ UNCHANGED <<hotels, rooms, bookings, dateRange, result>>
    /\ UNCHANGED <<guardVars, dashVars, pollVars, detailsVars>>

(***************************************************************************)
(* Inputs for the chart series: rooms and bookings of several categories,  *)
(* hotels of several floor counts, stays that cover some days of the range *)
(* and not others.  Both calls of the aggregator run on them.              *)
(***************************************************************************)
\* the status enum of a room
RoomStatuses == {"AVAILABLE", "OCCUPIED", "MAINTENANCE", "CLEANING"}

\* (d) rooms of every type and status
RoomsByKind ==
    Extended([id : {"r1"}, isActive : {TRUE}],
             [roomType : {"Deluxe", "Suite"}, status : RoomStatuses,
              floor : {1}])

SuiteBooking ==
    [roomId |-> "r1", email |-> "a@x", checkInDate |-> OneDayRange.from,
     checkOutDate |-> NaN, totalAmount |-> 100, bookingSource |-> "OTA",
     bookingStatus |-> "CONFIRMED", roomType |-> "Suite",
     numberOfGuests |-> 2]

InputsByRoomKind ==
    /\ hotels = <<TheHotel>>
    /\ rooms \in SeqsUpTo(RoomsByKind, MaxRooms)
    /\ dateRange = OneDayRange
    /\ bookings \in {<<>>, <<SuiteBooking>>}

\* (e) bookings of every source and status, in and after the range, with
\* their number of guests given, zero or absent
BookingsByKind ==
    UNION { Extended([roomId : {"r1"}, email : {"", "a@x"},
                      checkInDate : {OneDayRange.from, OneDayRange.to + 1},
                      checkOutDate : {NaN}, totalAmount : {100}],
                     [bookingSource : {"", "Direct", "OTA"},
                      bookingStatus : {k.status}, roomType : {k.type},
                      numberOfGuests : {k.guests}])
            : k \in {[status |-> "CONFIRMED", type |-> "Deluxe", guests |-> NaN],
                     [status |-> "CANCELLED", type |-> "Suite", guests |-> 2],
                     [status |-> "CONFIRMED", type |-> "Suite", guests |-> 0]} }

InputsByBookingKind ==
    /\ hotels = <<TheHotel>>
    /\ rooms = <<ActiveRoom("r1")>>
    /\ dateRange = OneDayRange
    /\ bookings \in SeqsUpTo(BookingsByKind, MaxBookings)

\* (f) stays over the days of the range, with no room, no active room, one
\* and two active rooms
BookingsByCover(dr) ==
    UNION { Extended([roomId : {"r1"}, email : {"a@x"}, checkInDate : {ci},
                      checkOutDate : {NaN, ci, ci + Day, ci + 2 * Day + 1},
                      totalAmount : {100}], PlainBooking)
            : ci \in {dr.from, dr.from + 1} }

TimelineRoomLists ==
    {<<>>,
     <<[ActiveRoom("r1") EXCEPT !.isActive = FALSE]>>,
     <<ActiveRoom("r1")>>,
     <<ActiveRoom("r1"), ActiveRoom("r2")>>}

InputsByCover ==
    /\ hotels = <<TheHotel>>
    /\ rooms \in TimelineRoomLists
    /\ \E dr \in DateRanges :
          /\ dateRange = dr
          /\ bookings \in SeqsUpTo(BookingsByCover(dr), MaxBookings)

\* (g) rooms on the floors of hotels with no, one and two floors counted
RoomsByFloor ==
    Extended([id : {"r1"}, isActive : {TRUE}],
             [roomType : {"Deluxe"}, status : {"AVAILABLE", "OCCUPIED"},
              floor : {NaN, 1, 2}])

InputsByFloor ==
    /\ hotels \in {<<[TheHotel EXCEPT !.floorCount = c]>> : c \in {0, 1, 2}}
    /\ rooms \in SeqsUpTo(RoomsByFloor, MaxRooms)
    /\ dateRange = OneDayRange
    /\ bookings = <<>>

InitCharts ==
    /\ result = Pending
    /\ again = Pending
    /\ (InputsByRoomKind \/ InputsByBookingKind \/ InputsByCover
          \/ InputsByFloor)

(***************************************************************************)
(* Guest lists long enough for the truncation of topGuests: the bookings   *)
(* response grows one booking at a time, every booking inside the range.   *)
(***************************************************************************)
MaxGuestBookings == 11

GuestEmails == <<"g01@x", "g02@x", "g03@x", "g04@x", "g05@x", "g06@x",
                 "g07@x", "g08@x", "g09@x", "g10@x", "g11@x", "g12@x",
                 "g13@x", "g14@x", "g15@x", "g16@x">>

GuestEmail(i) == IF i = 0 THEN "" ELSE GuestEmails[i]

GuestBooking(i, amount) ==
    [roomId |-> "r1", email |-> GuestEmail(i),
     checkInDate |-> OneDayRange.from, checkOutDate |-> NaN,
     totalAmount |-> amount, bookingSource |-> "",
     bookingStatus |-> "CONFIRMED", roomType |-> "Deluxe",
     numberOfGuests |-> NaN]

NamedGuests(bks) == Cardinality({bks[i].email : i \in 1..Len(bks)} \ {""})

InitGuests ==
    /\ hotels = <<TheHotel>>
    /\ rooms = <<ActiveRoom("r1")>>
    /\ dateRange = OneDayRange
    /\ bookings = <<>>
    /\ result = Pending
    /\ again = Pending

\* the backend holds one more booking: of a new guest or, among the first
\* MaxBookings bookings, of a guest who booked before or of a guest without
\* email (i = 0)
AddGuestBooking ==
    /\ result = Pending
    /\ Len(bookings) < MaxGuestBookings
    /\ \E i \in 0..(NamedGuests(bookings) + 1), amount \in {1, 2} :
          /\ i <= NamedGuests(bookings) => Len(bookings) < MaxBookings
          /\ bookings' = Append(bookings, GuestBooking(i, amount))
    /\ UNCHANGED <<hotels, rooms, dateRange, result, again>>
    /\ UNCHANGED <<guardVars, dashVars, pollVars, detailsVars>>

\* one call of processGraphQLData on the grown response
ProcessGuests ==
    /\ result = Pending
    /\ bookings # <<>>
    /\ \E seed \in Seeds :
          result' = processGraphQLData(hotels, rooms, bookings, dateRange, seed)
    /\ UNCHANGED <<hotels, rooms, bookings, dateRange, again>>
    /\ UNCHANGED <<guardVars, dashVars, pollVars, detailsVars>>

(***************************************************************************)
(* DASHBOARD  (HotelDashboard, lines 282-508)                              *)
(*                                                                         *)
(* hotels, rooms and bookings are here what the backend answers.  A call   *)
(* of fetchDashboardData is a record [range, stage]: the dateRange of the  *)
(* render whose closure it is, and the await it stands at ("hotel",        *)
(* "rooms", "bookings"), or how it ended ("applied", "failed").            *)
(* forceRefresh only changes the URL, the headers and the text logged.     *)
(***************************************************************************)
\* Number of fetchDashboardData calls that pass the guards of lines 300-301.
MaxFetches == 3

DashRanges == {OneDayRange, [from |-> 2 * Day, to |-> 2 * Day]}

BookingA ==
    [roomId |-> "r1", email |-> "a@x", checkInDate |-> 2 * Day,
     checkOutDate |-> 3 * Day, totalAmount |-> 100, bookingSource |-> "",
     bookingStatus |-> "CONFIRMED", roomType |-> "Deluxe",
     numberOfGuests |-> 2]

BookingB ==
    [roomId |-> "r2", email |-> "b@x", checkInDate |-> 2 * Day + 1,
     checkOutDate |-> NaN, totalAmount |-> 50, bookingSource |-> "OTA",
     bookingStatus |-> "PENDING", roomType |-> "Suite",
     numberOfGuests |-> NaN]

\* what the three queries can answer: no hotel at all (the aggregation then
\* throws), or a hotel with one room and one or two bookings
Backends ==
    { [hotels |-> <<>>, bookings |-> <<BookingA>>],
      [hotels |-> <<TheHotel>>, bookings |-> <<BookingA>>],
      [hotels |-> <<TheHotel>>, bookings |-> <<BookingA, BookingB>>] }

\* how one awaited request can end: a parsed body without errors, a rejected
\* fetch, a body that is no JSON, a body with GraphQL errors
Outcomes == {"ok", "reject", "badjson", "errors"}

InFlight(f) == f.stage \in {"hotel", "rooms", "bookings"}

NextStage(stage) ==
    IF stage = "hotel" THEN "rooms"
    ELSE IF stage = "rooms" THEN "bookings"
    ELSE "applied"

\* lines 486-491: the aggregation the call runs once its three bodies are in
Processed(f, seed) ==
    processGraphQLData(hotels, rooms, bookings, f.range, seed)

\* whether the step of call f on `outcome` ends in the catch block
Fails(f, outcome) ==
    \/ outcome # "ok"
    \/ f.stage = "bookings" /\ AggregationThrows(hotels)

\* a call that clears the dashboard when it fails
MutDataAfter(f, outcome, data, seed) ==
    IF Fails(f, outcome) THEN Null
    ELSE IF f.stage = "bookings" THEN Processed(f, seed)
    ELSE data

\* a call that drops its result when the date range has changed meanwhile
MutDataAfterCurrent(f, outcome, data, seed) ==
    IF Fails(f, outcome) THEN data
    ELSE IF f.stage = "bookings" /\ f.range = uiRange THEN Processed(f, seed)
    ELSE data

\* lines 485-495: dashboardData after the step of call f on `outcome`
DataAfter(f, outcome, data, seed) ==
    IF Fails(f, outcome) THEN data
    ELSE IF f.stage = "bookings" THEN Processed(f, seed)
    ELSE data

InitDash ==
    /\ \E b \in Backends : hotels = b.hotels /\ bookings = b.bookings
    /\ rooms = <<ActiveRoom("r1")>>
    /\ ready = FALSE
    /\ uiRange \in DashRanges
    /\ isLoading = TRUE
    /\ dashboardData = Null
    /\ fetches = <<>>
    /\ errorsLogged = 0

\* lines 299-303: fetchDashboardData up to its first await
StartFetch(range) ==
    /\ Len(fetches) < MaxFetches
    /\ isLoading' = TRUE
    /\ fetches' = Append(fetches, [range |-> range, stage |-> "hotel"])

\* the hotel context and the session deliver selectedHotel.id and adminId;
\* the effect of lines 501-503 runs again
ContextReady ==
    /\ ~ready
    /\ ready' = TRUE
    /\ StartFetch(uiRange)
    /\ UNCHANGED <<uiRange, dashboardData, errorsLogged>>
    /\ UNCHANGED <<guardVars, aggVars, pollVars, detailsVars>>

\* lines 550-554 and the effect of lines 501-503
HandleDateRangeChange ==
    \E r \in DashRanges :
        /\ uiRange' = r
        /\ IF ready
           THEN StartFetch(r)
           ELSE UNCHANGED <<isLoading, fetches>>
        /\ UNCHANGED <<ready, dashboardData, errorsLogged>>
        /\ UNCHANGED <<guardVars, aggVars, pollVars, detailsVars>>

\* lines 506-508
HandleRefresh ==
    /\ ready
    /\ StartFetch(uiRange)
    /\ UNCHANGED <<ready, uiRange, dashboardData, errorsLogged>>
    /\ UNCHANGED <<guardVars, aggVars, pollVars, detailsVars>>

\* lines 310-498: call i resumes from its await with `outcome`
Respond ==
    \E i \in 1..Len(fetches), outcome \in Outcomes, seed \in Seeds :
        LET f == fetches[i] IN
        /\ InFlight(f)
        /\ dashboardData' = DataAfter(f, outcome, dashboardData, seed)
        /\ IF Fails(f, outcome)
           THEN /\ fetches' = [fetches EXCEPT ![i].stage = "failed"]
                /\ errorsLogged' = errorsLogged + 1
                /\ isLoading' = FALSE
           ELSE /\ fetches' = [fetches EXCEPT ![i].stage = NextStage(f.stage)]
                /\ errorsLogged' = errorsLogged
                /\ isLoading' = IF f.stage = "bookings" THEN FALSE
                                 ELSE isLoading
        /\ UNCHANGED <<ready, uiRange, guardVars, aggVars, pollVars, detailsVars>>

(***************************************************************************)
(* BOOKING ANALYTICS  (booking-analytics.tsx, lines 106-606)               *)
(*                                                                         *)
(* The backend holds the bookings 1..serverCount of the hotel; booking k   *)
(* is in room k.  A list of bookings is a record of where it came from     *)
(* ("server", "mock", "none" for the empty initial list) and its length:   *)
(* the server list of length n holds the bookings 1..n.                    *)
(*                                                                         *)
(* A call of checkForNewBookings is a record of what its closure holds     *)
(* (bookingCount, isAutoRefreshEnabled and, through fetchBookings, the     *)
(* roomDetails of the render that made it) and its stage: "flight" while   *)
(* it awaits, then how its request ended.  A call of fetchBookings is a    *)
(* record of the roomDetails its closure holds, the await it stands at     *)
(* ("bookings", "details") or how it ended ("done", "nodata", "reject")    *)
(* and the number of bookings it received.  A call of fetchRooms is a      *)
(* record of the bookings its closure holds, the fetchBookings call made   *)
(* together with it and its stage.  The effect of                          *)
(* lines 191-204 runs again after every render in which                    *)
(* checkForNewBookings is a new function, which is every render that       *)
(* changed bookingCount or isAutoRefreshEnabled (line 180); it then calls  *)
(* checkForNewBookings at once (line 195).  The rooms state, the filters,  *)
(* the month shown and the selected booking are not part of this model.    *)
(***************************************************************************)
\* Number of count requests, of fetchBookings calls, of bookings on the
\* backend, of clicks on the auto-refresh switch.
MaxPolls == 3
MaxLists == 2
MaxServerCount == 2
MaxToggles == 1

\* generateMockBookings(currentDate).length: the module ./mock-data is not
\* at hand; the list it returns has some length
MockLengths == {1}

NoToasts == [new |-> 0, loaded |-> 0, error |-> 0, info |-> 0]

\* how an awaited request of the component can end: a body with data, a body
\* without data (GraphQL errors), a rejected fetch or a body that is no JSON
PollOutcomes == {"data", "nodata", "reject"}

NoBookings == [src |-> "none", len |-> 0]

ServerList(n) == [src |-> IF n = 0 THEN "none" ELSE "server", len |-> n]

MockList(n) == [src |-> "mock", len |-> n]

InitPoll ==
    /\ hotelSelected = FALSE
    /\ serverCount \in 0..MaxServerCount
    /\ bookingCount = 0
    /\ isAutoRefreshEnabled = TRUE
    /\ hasNewBookings = FALSE
    /\ calendarBookings = NoBookings
    /\ bookingsRef = NoBookings
    /\ bookingsLoading = TRUE
    /\ polls = <<>>
    /\ lists = <<>>
    /\ roomFetches = <<>>
    /\ roomDetails = {}
    /\ callbackDetails = {}
    /\ fills = {}
    /\ createdSinceFetch = TRUE
    /\ toasts = NoToasts
    /\ pollErrors = 0

\* lines 134-153: checkForNewBookings of the render with bookingCount `count`,
\* isAutoRefreshEnabled `auto` and roomDetails `details`, up to its first
\* await
SendPoll(ps, count, auto, details) ==
    Append(ps, [count |-> count, auto |-> auto, details |-> details,
                stage |-> "flight"])

\* lines 191-204 after a render: when bookingCount or isAutoRefreshEnabled
\* changed and a hotel is selected, the effect runs again and polls at once
PollsAfterRender(ps, changed, count, auto, details) ==
    IF changed /\ hotelSelected THEN SendPoll(ps, count, auto, details)
    ELSE ps

\* line 180: the roomDetails the callback closes over after a render
CallbackAfterRender(changed, details) ==
    IF changed THEN details ELSE callbackDetails

\* lines 314-317: fetchBookings of a render with roomDetails `details`, up
\* to its first await
SendList(ls, details) ==
    Append(ls, [stage |-> "bookings", len |-> 0, details |-> details])

\* lines 471-513: fetchRooms of the render with the bookings `held`, up to
\* its first await; `list` is the fetchBookings call made with it
SendRooms(rs, held, list) ==
    Append(rs, [snap |-> held, list |-> list, stage |-> "flight"])

AddToast(ts, title) == [ts EXCEPT ![title] = @ + 1]

\* the hotel context delivers the selected hotel: the effects of lines
\* 183-188 and 191-204 run
SelectHotel ==
    /\ ~hotelSelected
    /\ hotelSelected' = TRUE
    /\ bookingsLoading' = TRUE
    /\ lists' = SendList(lists, roomDetails)
    /\ roomFetches' = SendRooms(roomFetches, calendarBookings,
                             Len(lists) + 1)
    /\ polls' = SendPoll(polls, bookingCount, isAutoRefreshEnabled,
                         roomDetails)
    /\ callbackDetails' = roomDetails
    /\ UNCHANGED <<serverCount, bookingCount, isAutoRefreshEnabled,
                   hasNewBookings, calendarBookings, bookingsRef,
                   roomDetails, fills, createdSinceFetch, toasts,
                   pollErrors>>
    /\ UNCHANGED <<guardVars, aggVars, dashVars, detailsVars>>

\* lines 198-200: the interval fires
PollTick ==
    /\ hotelSelected
    /\ Len(polls) < MaxPolls
    /\ polls' = SendPoll(polls, bookingCount, isAutoRefreshEnabled,
                         callbackDetails)
    /\ UNCHANGED <<hotelSelected, serverCount, bookingCount,
                   isAutoRefreshEnabled, hasNewBookings, calendarBookings,
                   bookingsRef, bookingsLoading, lists, roomFetches,
                   roomDetails, callbackDetails, fills, createdSinceFetch,
                   toasts, pollErrors>>
    /\ UNCHANGED <<guardVars, aggVars, dashVars, detailsVars>>

\* line 161, in the closure of call p
IsNewCount(newCount, p) == newCount > p.count

\* lines 155-179: call i resumes from its await with `outcome`
PollRespond ==
    \E i \in 1..Len(polls), outcome \in PollOutcomes :
        LET p        == polls[i]
            newCount == serverCount
            isNew    == outcome = "data" /\ IsNewCount(newCount, p)
            refetch  == isNew /\ p.auto
            answered == [polls EXCEPT ![i].stage = outcome]
            count    == IF outcome = "data" THEN newCount ELSE bookingCount
        IN  /\ p.stage = "flight"
            /\ refetch => Len(lists) < MaxLists
            /\ count # bookingCount => Len(polls) < MaxPolls
            /\ hasNewBookings' = (hasNewBookings \/ isNew)
            /\ lists' = IF refetch THEN SendList(lists, p.details) ELSE lists
            /\ bookingsLoading' = IF refetch THEN TRUE ELSE bookingsLoading
            /\ toasts' = IF isNew /\ ~p.auto THEN AddToast(toasts, "new")
                         ELSE toasts
            /\ pollErrors' = IF outcome = "reject" THEN pollErrors + 1
                             ELSE pollErrors
            /\ bookingCount' = count
            /\ polls' = PollsAfterRender(answered, count # bookingCount,
                                         count, isAutoRefreshEnabled,
                                         roomDetails)
            /\ callbackDetails' =
                  CallbackAfterRender(count # bookingCount, roomDetails)
            /\ UNCHANGED <<hotelSelected, serverCount, isAutoRefreshEnabled,
                           calendarBookings, bookingsRef, roomFetches,
                           roomDetails, fills, createdSinceFetch>>
            /\ UNCHANGED <<guardVars, aggVars, dashVars, detailsVars>>

\* lines 596-606
ToggleAutoRefresh ==
    /\ toasts.info < MaxToggles
    /\ hotelSelected => Len(polls) < MaxPolls
    /\ isAutoRefreshEnabled' = ~isAutoRefreshEnabled
    /\ toasts' = AddToast(toasts, "info")
    /\ polls' = PollsAfterRender(polls, TRUE, bookingCount,
                                 ~isAutoRefreshEnabled, roomDetails)
    /\ callbackDetails' = CallbackAfterRender(TRUE, roomDetails)
    /\ UNCHANGED <<hotelSelected, serverCount, bookingCount, hasNewBookings,
                   calendarBookings, bookingsRef, bookingsLoading, lists,
                   roomFetches, roomDetails, fills, createdSinceFetch,
                   pollErrors>>
    /\ UNCHANGED <<guardVars, aggVars, dashVars, detailsVars>>

\* lines 591-594, for a selected hotel
HandleListRefresh ==
    /\ hotelSelected
    /\ Len(lists) < MaxLists
    /\ lists' = SendList(lists, roomDetails)
    /\ roomFetches' = SendRooms(roomFetches, calendarBookings,
                             Len(lists) + 1)
    /\ bookingsLoading' = TRUE
    /\ UNCHANGED <<hotelSelected, serverCount, bookingCount,
                   isAutoRefreshEnabled, hasNewBookings, calendarBookings,
                   bookingsRef, polls, roomDetails, callbackDetails, fills,
                   createdSinceFetch, toasts, pollErrors>>
    /\ UNCHANGED <<guardVars, aggVars, dashVars, detailsVars>>

\* a failure branch that keeps the bookings shown
MutListAfter(outcome, got, mock, held) ==
    IF outcome = "data" THEN got ELSE held

\* lines 419-421, 441-443, 463-465: the list that setBookings and
\* bookingsRef.current receive
ListAfter(outcome, got, mock, held) ==
    IF outcome = "data" THEN got ELSE MockList(mock)

\* lines 375-424 and 430-468: call i resumes from its first await
ListRespond ==
    \E i \in 1..Len(lists), outcome \in PollOutcomes, mock \in MockLengths :
        LET list  == ListAfter(outcome, ServerList(serverCount), mock,
                               bookingsRef)
            count == IF outcome = "data" THEN bookingCount ELSE mock
        IN  /\ lists[i].stage = "bookings"
            /\ count # bookingCount => Len(polls) < MaxPolls
            /\ calendarBookings' = list
            /\ bookingsRef' = list
            /\ createdSinceFetch' = FALSE
            /\ lists' = [lists EXCEPT
                           ![i].stage = IF outcome = "data" THEN "details"
                                        ELSE outcome,
                           ![i].len = list.len]
            /\ toasts' =
                  IF /\ outcome = "data"
                     /\ bookingsRef.len > 0
                     /\ list.len > bookingsRef.len
                  THEN AddToast(toasts, "loaded")
                  ELSE IF outcome = "reject" THEN AddToast(toasts, "error")
                  ELSE toasts
            /\ pollErrors' = IF outcome = "data" THEN pollErrors
                             ELSE pollErrors + 1
            /\ bookingsLoading' = IF outcome = "data" THEN bookingsLoading
                                  ELSE FALSE
            /\ bookingCount' = count
            /\ polls' = PollsAfterRender(polls, count # bookingCount, count,
                                         isAutoRefreshEnabled, roomDetails)
            /\ callbackDetails' =
                  CallbackAfterRender(count # bookingCount, roomDetails)
            /\ UNCHANGED <<hotelSelected, serverCount, isAutoRefreshEnabled,
                           hasNewBookings, roomFetches, roomDetails, fills>>
            /\ UNCHANGED <<guardVars, aggVars, dashVars, detailsVars>>

\* lines 294-297: the rooms fetchAllRoomDetails asks for, given the
\* roomDetails of its closure and the number of bookings received
RoomIdsToFetch(details, len) == (1..len) \ details

\* lines 299-311: roomDetails after the batch: the closure's roomDetails and
\* the rooms fetched, or no update when there was nothing to fetch
DetailsAfterBatch(details, len, fetched, held) ==
    IF RoomIdsToFetch(details, len) = {} THEN held
    ELSE details \cup fetched

\* lines 304-311 and 424-429, 466-468: call i resumes from
\* `await fetchAllRoomDetails`; `fetched` are the rooms fetchRoomDetails
\* returned a record for
ListDetailsDone ==
    \E i \in 1..Len(lists) :
      \E fetched \in SUBSET RoomIdsToFetch(lists[i].details, lists[i].len) :
        LET count   == lists[i].len
            details == DetailsAfterBatch(lists[i].details, lists[i].len,
                                         fetched, roomDetails)
        IN  /\ lists[i].stage = "details"
            /\ count # bookingCount => Len(polls) < MaxPolls
            /\ lists' = [lists EXCEPT ![i].stage = "done"]
            /\ roomDetails' = details
            /\ bookingCount' = count
            /\ hasNewBookings' = FALSE
            /\ bookingsLoading' = FALSE
            /\ polls' = PollsAfterRender(polls, count # bookingCount, count,
                                         isAutoRefreshEnabled, details)
            /\ callbackDetails' =
                  CallbackAfterRender(count # bookingCount, details)
            /\ UNCHANGED <<hotelSelected, serverCount, isAutoRefreshEnabled,
                           calendarBookings, bookingsRef, roomFetches, fills,
                           createdSinceFetch, toasts, pollErrors>>
            /\ UNCHANGED <<guardVars, aggVars, dashVars, detailsVars>>

\* lines 515-546: call i of fetchRooms resumes from its await.  With data
\* and a non-empty `bookings` in its closure it sets the bookings state to
\* those bookings, room number and floor filled in.
RoomsRespond ==
    \E i \in 1..Len(roomFetches), outcome \in PollOutcomes :
        LET r == roomFetches[i]
        IN  /\ r.stage = "flight"
            /\ roomFetches' = [roomFetches EXCEPT ![i].stage = outcome]
            /\ calendarBookings' =
                  IF outcome = "data" /\ r.snap.len > 0 THEN r.snap
                  ELSE calendarBookings
            /\ pollErrors' = IF outcome = "data" THEN pollErrors
                             ELSE pollErrors + 1
            /\ toasts' = IF outcome = "reject" THEN AddToast(toasts, "error")
                         ELSE toasts
            /\ UNCHANGED <<hotelSelected, serverCount, bookingCount,
                           isAutoRefreshEnabled, hasNewBookings, bookingsRef,
                           bookingsLoading, polls, lists, roomDetails,
                           callbackDetails, fills, createdSinceFetch>>
            /\ UNCHANGED <<guardVars, aggVars, dashVars, detailsVars>>

\* lines 569-575: a booking shown is clicked whose room has no details yet
HandleBookingClick ==
    \E k \in 1..calendarBookings.len :
        /\ calendarBookings.src = "server"
        /\ k \notin roomDetails
        /\ k \notin fills
        /\ fills' = fills \cup {k}
        /\ UNCHANGED <<hotelSelected, serverCount, bookingCount,
                       isAutoRefreshEnabled, hasNewBookings,
                       calendarBookings, bookingsRef, bookingsLoading, polls,
                       lists, roomFetches, roomDetails, callbackDetails,
                       createdSinceFetch, toasts, pollErrors>>
        /\ UNCHANGED <<guardVars, aggVars, dashVars, detailsVars>>

\* lines 575-582: fetchRoomDetails of a click resolves, with a room or null
FillRespond ==
    \E k \in fills, found \in BOOLEAN :
        /\ fills' = fills \ {k}
        /\ roomDetails' = IF found THEN roomDetails \cup {k} ELSE roomDetails
        /\ UNCHANGED <<hotelSelected, serverCount, bookingCount,
                       isAutoRefreshEnabled, hasNewBookings,
                       calendarBookings, bookingsRef, bookingsLoading, polls,
                       lists, roomFetches, callbackDetails,
                       createdSinceFetch, toasts, pollErrors>>
        /\ UNCHANGED <<guardVars, aggVars, dashVars, detailsVars>>

\* a booking is created on the backend
BookingCreated ==
    /\ serverCount < MaxServerCount
    /\ serverCount' = serverCount + 1
    /\ createdSinceFetch' = TRUE
    /\ UNCHANGED <<hotelSelected, bookingCount, isAutoRefreshEnabled,
                   hasNewBookings, calendarBookings, bookingsRef,
                   bookingsLoading, polls, lists, roomFetches, roomDetails,
                   callbackDetails, fills, toasts, pollErrors>>
    /\ UNCHANGED <<guardVars, aggVars, dashVars, detailsVars>>

(***************************************************************************)
(* BOOKING DETAILS  (booking-details.tsx, lines 33-424 and 655)            *)
(*                                                                         *)
(* The booking is a record of the fields the handlers write and the        *)
(* totals read; payments and roomCharges are the sequences of their        *)
(* amounts.  An amount is a number or NoAmount, a value that Number()      *)
(* turns into NaN (an undefined property, text that is no number).  A call *)
(* of a mutation handler is a record of its kind, its arguments, the       *)
(* bookingData of the render whose handler was called (the `bookingData`   *)
(* its closure spreads) and its stage: "flight" while it awaits, then how  *)
(* the request ended.  The backend applies a mutation when it answers it   *)
(* with data.  handleExtendBooking is modelled as the handler it is; the   *)
(* modal that would call it is commented out in lines 795-803.             *)
(***************************************************************************)
\* Number of mutation calls.
MaxMutations == 2

NoAmount == 0 - 2000000

\* Number(x)
Number(x) == IF x = NoAmount THEN NaN ELSE x

\* x || 0, for a number x
OrZero(x) == IF x = NaN THEN 0 ELSE x

\* a + b and a - b of numbers
Plus(a, b) == IF a = NaN \/ b = NaN THEN NaN ELSE a + b

Minus(a, b) == IF a = NaN \/ b = NaN THEN NaN ELSE a - b

\* line 655: roomCharges.reduce((sum, charge) => sum + Number(charge.amount), 0)
RECURSIVE SumCharges(_)
SumCharges(amounts) ==
    IF amounts = <<>> THEN 0
    ELSE Plus(SumCharges(SubSeq(amounts, 1, Len(amounts) - 1)),
              Number(amounts[Len(amounts)]))

\* lines 419-421: payments.reduce((sum, p) => sum + (Number(p.amount) || 0), 0)
RECURSIVE SumPayments(_)
SumPayments(amounts) ==
    IF amounts = <<>> THEN 0
    ELSE Plus(SumPayments(SubSeq(amounts, 1, Len(amounts) - 1)),
              OrZero(Number(amounts[Len(amounts)])))

paymentsCollected(bd) == OrZero(SumPayments(bd.payments))

\* line 424
balanceToCollect(bd) == Minus(Number(bd.totalAmount), paymentsCollected(bd))

\* the bookings the backend can hold when the view opens
ServerBookings ==
    [bookingStatus : {"CONFIRMED"}, paymentStatus : {"PENDING"},
     checkOutDate : {2 * Day}, baseAmount : {100}, taxAmount : {0},
     totalAmount : {NoAmount, 100},
     payments : {<<>>, <<NoAmount>>, <<40>>},
     roomCharges : {<<>>, <<NoAmount>>, <<25>>}]

BookingStatuses == {"CONFIRMED", "CHECKED_IN"}

ExtendDates == {3 * Day}

ChargeAmounts == {25}

\* how an awaited request of the component can end: a body with data, a
\* body with errors, a rejected fetch or a body that is no JSON
DetailOutcomes == {"data", "errors", "reject"}

NoDetailToasts == [success |-> 0, error |-> 0]

InitDetails ==
    /\ serverBooking \in ServerBookings
    /\ bookingData = Null
    /\ loading = TRUE
    /\ statusLoading = FALSE
    /\ extendLoading = FALSE
    /\ collectPaymentLoading = FALSE
    /\ detailsFetch = "idle"
    /\ mutations = <<>>
    /\ detailToasts = NoDetailToasts
    /\ detailErrors = 0

\* lines 46-51: the effect calls fetchBookingDetails, up to its await
FetchBookingDetails ==
    /\ detailsFetch = "idle"
    /\ detailsFetch' = "flight"
    /\ loading' = TRUE
    /\ UNCHANGED <<serverBooking, bookingData, statusLoading, extendLoading,
                   collectPaymentLoading, mutations, detailToasts,
                   detailErrors>>
    /\ UNCHANGED <<guardVars, aggVars, dashVars, pollVars>>

\* lines 100-117: fetchBookingDetails resumes from its await
DetailsRespond ==
    \E outcome \in DetailOutcomes :
        /\ detailsFetch = "flight"
        /\ detailsFetch' = outcome
        /\ bookingData' = IF outcome = "data" THEN serverBooking
                          ELSE bookingData
        /\ detailErrors' = IF outcome = "data" THEN detailErrors
                           ELSE detailErrors + 1
        /\ detailToasts' = IF outcome = "data" THEN detailToasts
                           ELSE [detailToasts EXCEPT !.error = @ + 1]
        /\ loading' = FALSE
        /\ UNCHANGED <<serverBooking, statusLoading, extendLoading,
                       collectPaymentLoading, mutations>>
        /\ UNCHANGED <<guardVars, aggVars, dashVars, pollVars>>

\* lines 397-415: the handlers can be called once the booking is rendered
Rendered == ~loading /\ bookingData # Null

\* a handler up to its await, called in the render that holds bookingData
SendMutation(ms, kind, status, amount) ==
    Append(ms, [kind |-> kind, status |-> status, amount |-> amount,
                snap |-> bookingData, stage |-> "flight"])

\* lines 120-151, called from the items of lines 540-579
HandleStatusChange ==
    \E newStatus \in BookingStatuses :
        /\ Rendered
        /\ Len(mutations) < MaxMutations
        /\ ~statusLoading
        /\ bookingData.bookingStatus # newStatus
        /\ statusLoading' = TRUE
        /\ mutations' = SendMutation(mutations, "status", newStatus, 0)
        /\ UNCHANGED <<serverBooking, bookingData, loading, extendLoading,
                       collectPaymentLoading, detailsFetch, detailToasts,
                       detailErrors>>
        /\ UNCHANGED <<guardVars, aggVars, dashVars, pollVars>>

\* lines 192-223
HandleExtendBooking ==
    \E newCheckOutDate \in ExtendDates :
        /\ Rendered
        /\ Len(mutations) < MaxMutations
        /\ ~extendLoading
        /\ extendLoading' = TRUE
        /\ mutations' = SendMutation(mutations, "extend", "", newCheckOutDate)
        /\ UNCHANGED <<serverBooking, bookingData, loading, statusLoading,
                       collectPaymentLoading, detailsFetch, detailToasts,
                       detailErrors>>
        /\ UNCHANGED <<guardVars, aggVars, dashVars, pollVars>>

\* lines 259-299, called from the button of lines 769-776: the button is
\* disabled when balanceToCollect <= 0, which is false for NaN
HandleCollectPayment ==
    LET balance == balanceToCollect(bookingData)
        amount  == IF bookingData.totalAmount = NoAmount THEN 0
                   ELSE bookingData.totalAmount
    IN  /\ Rendered
        /\ Len(mutations) < MaxMutations
        /\ ~collectPaymentLoading
        /\ balance = NaN \/ balance > 0
        /\ collectPaymentLoading' = TRUE
        /\ mutations' = SendMutation(mutations, "payment", "", amount)
        /\ UNCHANGED <<serverBooking, bookingData, loading, statusLoading,
                       extendLoading, detailsFetch, detailToasts,
                       detailErrors>>
        /\ UNCHANGED <<guardVars, aggVars, dashVars, pollVars>>

\* lines 330-365, called from the button of lines 661-685 with an amount
\* that passed the check of line 669
HandleAddRoomCharge ==
    \E amount \in ChargeAmounts :
        /\ Rendered
        /\ Len(mutations) < MaxMutations
        /\ mutations' = SendMutation(mutations, "charge", "", amount)
        /\ UNCHANGED <<serverBooking, bookingData, loading, statusLoading,
                       extendLoading, collectPaymentLoading, detailsFetch,
                       detailToasts, detailErrors>>
        /\ UNCHANGED <<guardVars, aggVars, dashVars, pollVars>>

\* the booking on the backend after it has carried out mutation m
ServerAfter(m, srv) ==
    LET total == IF srv.totalAmount = NoAmount THEN NoAmount
                 ELSE srv.totalAmount + (IF m.kind = "extend" THEN 50
                                         ELSE m.amount)
    IN  IF m.kind = "status" THEN [srv EXCEPT !.bookingStatus = m.status]
        ELSE IF m.kind = "extend"
        THEN [srv EXCEPT !.checkOutDate = m.amount,
                         !.baseAmount = @ + 50,
                         !.totalAmount = total]
        ELSE IF m.kind = "payment"
        THEN [srv EXCEPT !.paymentStatus = "PAID",
                         !.payments = Append(@, m.amount)]
        ELSE [srv EXCEPT !.roomCharges = Append(@, m.amount),
                         !.totalAmount = total]

\* lines 158-163, 229-236, 307-312, 376-381: setBookingData({...bookingData,
\* ...}) with the bookingData of the closure and the fields of the response
Applied(m, srv) ==
    IF m.kind = "status" THEN [m.snap EXCEPT !.bookingStatus = m.status]
    ELSE IF m.kind = "extend"
    THEN [m.snap EXCEPT !.checkOutDate = srv.checkOutDate,
                        !.baseAmount = srv.baseAmount,
                        !.taxAmount = srv.taxAmount,
                        !.totalAmount = srv.totalAmount]
    ELSE IF m.kind = "payment"
    THEN [m.snap EXCEPT !.paymentStatus = srv.paymentStatus,
                        !.payments = srv.payments]
    ELSE [m.snap EXCEPT !.totalAmount = srv.totalAmount,
                        !.roomCharges = srv.roomCharges]

\* a handler that writes its update whatever the response says
MutBookingDataAfter(m, outcome, srv, bd) == Applied(m, srv)

\* bookingData after call m resumed with `outcome`; srv is the backend's
\* booking the response was made from
BookingDataAfter(m, outcome, srv, bd) ==
    IF outcome = "data" THEN Applied(m, srv) ELSE bd

\* lines 153-189, 225-256, 301-327, 367-394: call i resumes from its await
MutationRespond ==
    \E i \in 1..Len(mutations), outcome \in DetailOutcomes :
        LET m   == mutations[i]
            srv == IF outcome = "data" THEN ServerAfter(m, serverBooking)
                   ELSE serverBooking
        IN  /\ m.stage = "flight"
            /\ mutations' = [mutations EXCEPT ![i].stage = outcome]
            /\ serverBooking' = srv
            /\ bookingData' = BookingDataAfter(m, outcome, srv, bookingData)
            /\ detailToasts' =
                  IF outcome = "data"
                  THEN [detailToasts EXCEPT !.success = @ + 1]
                  ELSE [detailToasts EXCEPT !.error = @ + 1]
            /\ detailErrors' = IF outcome = "data" THEN detailErrors
                               ELSE detailErrors + 1
            /\ statusLoading' = IF m.kind = "status" THEN FALSE
                                ELSE statusLoading
            /\ extendLoading' = IF m.kind = "extend" THEN FALSE
                                ELSE extendLoading
            /\ collectPaymentLoading' = IF m.kind = "payment" THEN FALSE
                                        ELSE collectPaymentLoading
            /\ UNCHANGED <<loading, detailsFetch>>
            /\ UNCHANGED <<guardVars, aggVars, dashVars, pollVars>>

(***************************************************************************)
(* Specifications                                                          *)
(***************************************************************************)
GuardIdle ==
    /\ pathname = <<>> /\ cookie = "absent" /\ token = "none"
    /\ response = Pending /\ hops = 0

AggIdle ==
    /\ hotels = <<>> /\ rooms = <<>> /\ bookings = <<>>
    /\ dateRange = OneDayRange /\ result = Pending /\ again = Pending

DashIdle ==
    /\ ready = FALSE /\ uiRange = OneDayRange /\ isLoading = TRUE
    /\ dashboardData = Null /\ fetches = <<>> /\ errorsLogged = 0

PollIdle ==
    /\ hotelSelected = FALSE /\ serverCount = 0 /\ bookingCount = 0
    /\ isAutoRefreshEnabled = TRUE /\ hasNewBookings = FALSE
    /\ calendarBookings = NoBookings /\ bookingsRef = NoBookings
    /\ bookingsLoading = TRUE /\ polls = <<>> /\ lists = <<>>
    /\ roomFetches = <<>> /\ roomDetails = {} /\ callbackDetails = {}
    /\ fills = {} /\ createdSinceFetch = TRUE
    /\ toasts = NoToasts /\ pollErrors = 0

DetailsIdle ==
    /\ serverBooking = Null /\ bookingData = Null /\ loading = TRUE
    /\ statusLoading = FALSE /\ extendLoading = FALSE
    /\ collectPaymentLoading = FALSE /\ detailsFetch = "idle"
    /\ mutations = <<>> /\ detailToasts = NoDetailToasts
    /\ detailErrors = 0

InitSpecGuard == InitGuard /\ AggIdle /\ DashIdle /\ PollIdle /\ DetailsIdle

NextGuard == Middleware \/ FollowRedirect

SpecGuard == InitSpecGuard /\ [][NextGuard]_vars

InitSpecAgg == InitAgg /\ GuardIdle /\ DashIdle /\ PollIdle /\ DetailsIdle

NextAgg == Process

SpecAgg == InitSpecAgg /\ [][NextAgg]_vars

InitSpecCharts == InitCharts /\ GuardIdle /\ DashIdle /\ PollIdle /\ DetailsIdle

NextCharts == Process \/ ProcessAgain

SpecCharts == InitSpecCharts /\ [][NextCharts]_vars

InitSpecGuests == InitGuests /\ GuardIdle /\ DashIdle /\ PollIdle /\ DetailsIdle

NextGuests == AddGuestBooking \/ ProcessGuests

SpecGuests == InitSpecGuests /\ [][NextGuests]_vars

InitSpecDash ==
    /\ InitDash
    /\ GuardIdle
    /\ dateRange = OneDayRange /\ result = Pending /\ again = Pending
    /\ PollIdle /\ DetailsIdle

NextDash ==
    \/ ContextReady
    \/ HandleDateRangeChange
    \/ HandleRefresh
    \/ Respond

SpecDash == InitSpecDash /\ [][NextDash]_vars

InitSpecPoll ==
    InitPoll /\ GuardIdle /\ AggIdle /\ DashIdle /\ DetailsIdle

\* the calendar view with its polling and the auto-refresh switch
NextPoll ==
    \/ SelectHotel
    \/ PollTick
    \/ PollRespond
    \/ ToggleAutoRefresh
    \/ ListRespond
    \/ ListDetailsDone
    \/ RoomsRespond
    \/ BookingCreated

SpecPoll == InitSpecPoll /\ [][NextPoll]_vars

InitSpecRefresh ==
    InitPoll /\ GuardIdle /\ AggIdle /\ DashIdle /\ DetailsIdle

\* the calendar view with its polling and the Refresh button
NextRefresh ==
    \/ SelectHotel
    \/ PollTick
    \/ PollRespond
    \/ HandleListRefresh
    \/ ListRespond
    \/ ListDetailsDone
    \/ RoomsRespond
    \/ BookingCreated

SpecRefresh == InitSpecRefresh /\ [][NextRefresh]_vars

InitSpecCache ==
    InitPoll /\ GuardIdle /\ AggIdle /\ DashIdle /\ DetailsIdle

\* the calendar view with its polling and the clicks on bookings
NextCache ==
    \/ SelectHotel
    \/ PollTick
    \/ PollRespond
    \/ ListRespond
    \/ ListDetailsDone
    \/ RoomsRespond
    \/ HandleBookingClick
    \/ FillRespond
    \/ BookingCreated

SpecCache == InitSpecCache /\ [][NextCache]_vars

InitSpecDetails ==
    InitDetails /\ GuardIdle /\ AggIdle /\ DashIdle /\ PollIdle

NextDetails ==
    \/ FetchBookingDetails
    \/ DetailsRespond
    \/ HandleStatusChange
    \/ HandleExtendBooking
    \/ HandleCollectPayment
    \/ HandleAddRoomCharge
    \/ MutationRespond

SpecDetails == InitSpecDetails /\ [][NextDetails]_vars

(***************************************************************************)
(* CLAIMS                                                                  *)
(***************************************************************************)
LoginPath == <<"/", "login">>
DashboardPath == <<"/", "dashboard">>

\* C1: for every request path and token state the access guard returns
\* exactly one of three outcomes: the redirect to /login with callbackUrl
\* set to the original path if and only if the path is protected and there
\* is no token; otherwise the redirect to /dashboard if and only if the
\* path is an auth-only path and there is a token; otherwise it lets the
\* request through.
C1_ThreeOutcomes ==
    response # Pending =>
        LET toLogin == isProtectedPath(pathname) /\ token = "none"
            toDashboard == ~toLogin /\ isAuthRoute(pathname) /\ token = "jwt"
            isLogin == /\ response.kind = "redirect"
                       /\ response.to = LoginPath
                       /\ response.callbackUrl = pathname
            isDashboard == /\ response.kind = "redirect"
                           /\ response.to = DashboardPath
                           /\ response.callbackUrl = <<>>
            isAllow == response.kind = "next"
        IN  /\ isLogin <=> toLogin
            /\ isDashboard <=> toDashboard
            /\ isAllow <=> (~toLogin /\ ~toDashboard)
            /\ Cardinality({o \in {"login", "dashboard", "allow"} :
                    \/ o = "login" /\ isLogin
                    \/ o = "dashboard" /\ isDashboard
                    \/ o = "allow" /\ isAllow}) = 1

\* C1 witness: a request below /hotels/settings without token was sent to
\* /login with its own path as callbackUrl
C1_Witness ==
    /\ response # Pending
    /\ token = "none"
    /\ pathname = <<"/", "hotels", "/", "settings">>
    /\ response.to = LoginPath
    /\ response.callbackUrl = pathname

\* the rule of C2 by segments: the path is the entry, or continues it with
\* a "/"
EntryCovers(entry, path) ==
    \/ path = entry
    \/ /\ Len(path) > Len(entry)
       /\ SubSeq(path, 1, Len(entry)) = entry
       /\ path[Len(entry) + 1] = "/"

\* the path begins with the entry's text and goes on, but not with a "/"
SharesLeadingText(entry, path) ==
    /\ Len(path) > Len(entry)
    /\ SubSeq(path, 1, Len(entry)) = entry
    /\ path[Len(entry) + 1] # "/"

\* C2: a path counts as protected (auth-only) exactly when it equals an
\* entry of the protected (auth-only) list or starts with that entry
\* followed by "/"; so a path that only shares leading characters with an
\* entry (/dashboardx) is not matched, and the "/" entry matches the root
\* path only (/bookings is not protected).  Read off the guard's answer:
\* without token a request is redirected exactly when protected, with a
\* token exactly when auth-only.
C2_ExactOrSegmentPrefix ==
    response # Pending =>
        /\ token = "none" =>
              (response.kind = "redirect"
                 <=> \E e \in protectedPaths : EntryCovers(e, pathname))
        /\ token = "jwt" =>
              (response.kind = "redirect"
                 <=> \E e \in authRoutes : EntryCovers(e, pathname))
        /\ \A e \in (protectedPaths \cup authRoutes) \ {<<"/">>} :
              SharesLeadingText(e, pathname) => ~pathMatches(pathname, e)
        /\ pathMatches(pathname, <<"/">>) => pathname = <<"/">>
        /\ (pathname = <<"/", "bookings">> /\ token = "none")
              => response.kind = "next"

\* C2 witness: /dashboardx without token was let through
C2_Witness ==
    /\ response # Pending
    /\ token = "none"
    /\ pathname = <<"/", "dashboard", "x">>
    /\ response.kind = "next"

\* a complete aggregator result: every field of the DashboardData modelled
IsComplete(data) ==
    /\ data.kind = "data"
    /\ DOMAIN data =
          {"kind", "overview", "recentBookings", "roomTypeDistribution",
           "bookingTrends", "bookingSources", "bookingStatus", "roomStatus",
           "roomTypePerformance", "floorOccupancy", "occupancyTimeline",
           "guestTypes", "stayDuration", "guestSatisfaction", "topGuests",
           "guestDemographics", "revenueTrends", "revenueByRoomType",
           "paymentMethods"}

\* the fetch calls that ended in the catch block
FailedCalls(fs) == {i \in 1..Len(fs) : fs[i].stage = "failed"}

\* C3: when one of the three dashboard queries fails at the network level,
\* returns GraphQL errors, or cannot be parsed or aggregated,
\* fetchDashboardData logs the error and leaves dashboardData as it was;
\* dashboardData is only ever replaced by a complete aggregator result.
\* As steps: a step in which a call fails logs once and keeps
\* dashboardData, an await that ends other than in a clean body fails the
\* call, and a step that changes dashboardData sets it to the complete
\* result of a call that had reached its last await.
C3_FailureKeepsData ==
    [][ /\ FailedCalls(fetches') # FailedCalls(fetches) =>
              /\ dashboardData' = dashboardData
              /\ errorsLogged' = errorsLogged + 1
        /\ errorsLogged' # errorsLogged =>
              FailedCalls(fetches') # FailedCalls(fetches)
        /\ dashboardData' # dashboardData =>
              /\ IsComplete(dashboardData')
              /\ \E i \in 1..Len(fetches) :
                    /\ fetches[i].stage = "bookings"
                    /\ fetches'[i].stage = "applied"
                    /\ \E seed \in Seeds :
                          dashboardData' = processGraphQLData(
                              hotels, rooms, bookings, fetches[i].range, seed)
        /\ (hotels = <<>> => dashboardData' = Null)
      ]_vars

\* C3 witness: the first call put a result on the dashboard, a later call
\* failed, and the dashboard still shows the first call's result
C3_Witness ==
    /\ Len(fetches) >= 2
    /\ fetches[1].stage = "applied"
    /\ fetches[2].stage = "failed"
    /\ errorsLogged = 1
    /\ IsComplete(dashboardData)
    /\ \E seed \in Seeds :
          dashboardData = processGraphQLData(
              hotels, rooms, bookings, fetches[1].range, seed)

(***************************************************************************)
(* Claims about the aggregator.  The quantities the claims name are        *)
(* written out here from the inputs, by index sets, apart from the         *)
(* operators of the model.                                                 *)
(***************************************************************************)
Done == result.kind = "data"

RECURSIVE SumAmounts(_, _)
SumAmounts(bks, I) ==
    IF I = {} THEN 0
    ELSE LET i == CHOOSE j \in I : TRUE
         IN  (IF bks[i].totalAmount = NaN THEN 0 ELSE bks[i].totalAmount)
             + SumAmounts(bks, I \ {i})

\* the bookings whose check-in lies in [lo, hi]
CheckedInBetween(lo, hi) ==
    {i \in 1..Len(bookings) :
        /\ bookings[i].checkInDate # NaN
        /\ lo <= bookings[i].checkInDate
        /\ bookings[i].checkInDate <= hi}

InSelectedRange == CheckedInBetween(dateRange.from, dateRange.to)

ActiveRoomCount == Cardinality({i \in 1..Len(rooms) : rooms[i].isActive})

\* the least whole number of days that covers `ticks`
DaysCeil(ticks) ==
    CHOOSE n \in (0 - 2 * TimeClip)..(2 * TimeClip) :
        n * Day >= ticks /\ (n - 1) * Day < ticks

\* the percentage n / d rounded to the nearest integer, half up
NearestPercent(n, d) ==
    CHOOSE q \in (0 - 1000)..1000 :
        2 * d * q <= 200 * n + d /\ 200 * n + d < 2 * d * (q + 1)

\* n / d rounded to the nearest integer, half up
Nearest(n, d) ==
    CHOOSE q \in 0..1000 : 2 * d * q <= 2 * n + d /\ 2 * n + d < 2 * d * (q + 1)

\* C4: the overview occupancyRate is 0 when there are no active rooms and
\* otherwise lies in [0, 100], being the number of distinct room references
\* among the filtered bookings over the number of active rooms, rounded to
\* the nearest integer percent.
C4_OccupancyWithinBounds ==
    Done =>
        LET occupied == Cardinality({bookings[i].roomId : i \in InSelectedRange})
            rate     == result.overview.occupancyRate
        IN  IF ActiveRoomCount = 0 THEN rate = 0
            ELSE /\ 0 <= rate /\ rate <= 100
                 /\ rate = NearestPercent(occupied, ActiveRoomCount)

\* C5: the baseline of totalBookingsChange and totalRevenueChange is the
\* set of bookings whose check-in falls in the period that is as long as
\* [from, to] and ends immediately before `from`.
C5_BaselineIsPrecedingPeriod ==
    Done =>
        LET len      == dateRange.to - dateRange.from
            baseline == CheckedInBetween(dateRange.from - len, dateRange.from - 1)
            prevN    == Cardinality(baseline)
            prevRev  == SumAmounts(bookings, baseline)
            curN     == Cardinality(InSelectedRange)
            curRev   == SumAmounts(bookings, InSelectedRange)
        IN  /\ result.overview.totalBookingsChange =
                  (IF prevN = 0 THEN 0
                   ELSE NearestPercent(curN - prevN, prevN))
            /\ result.overview.totalRevenueChange =
                  (IF prevRev = 0 THEN 0
                   ELSE NearestPercent(curRev - prevRev, prevRev))

RoomNights(i) ==
    LET b == bookings[i]
    IN  IF b.checkInDate = NaN \/ b.checkOutDate = NaN THEN 1
        ELSE IF b.checkOutDate <= b.checkInDate THEN 1
        ELSE DaysCeil(b.checkOutDate - b.checkInDate)

RECURSIVE SumRoomNights(_)
SumRoomNights(I) ==
    IF I = {} THEN 0
    ELSE LET i == CHOOSE j \in I : TRUE
         IN  RoomNights(i) + SumRoomNights(I \ {i})

\* C7 as stated: averageDailyRate equals total filtered revenue divided by
\* total room-nights, every filtered booking contributing
\* max(1, ceil(nights)), and is 0 when there are no room-nights.
C7_AdrExactQuotient ==
    Done =>
        LET nights == SumRoomNights(InSelectedRange)
            rev    == SumAmounts(bookings, InSelectedRange)
        IN  IF nights = 0 THEN result.overview.averageDailyRate = 0
            ELSE result.overview.averageDailyRate * nights = rev

\* C7 amended: averageDailyRate is that quotient rounded to the nearest
\* integer.
C7_AdrRounded ==
    Done =>
        LET nights == SumRoomNights(InSelectedRange)
            rev    == SumAmounts(bookings, InSelectedRange)
        IN  IF nights = 0 THEN result.overview.averageDailyRate = 0
            ELSE result.overview.averageDailyRate = Nearest(rev, nights)

\* C7 witness: one booking of 50 over three nights and one whose check-out
\* is not after its check-in: 150 over 4 room-nights, rate 38
C7_Witness ==
    /\ Done
    /\ Len(result.recentBookings) = 2
    /\ \E i \in 1..2 :
          /\ bookings[i].checkOutDate = bookings[i].checkInDate + 3 * Day
          /\ bookings[i].totalAmount = 50
    /\ \E i \in 1..2 :
          /\ bookings[i].checkOutDate = bookings[i].checkInDate - 1
          /\ bookings[i].totalAmount = 100
    /\ result.overview.averageDailyRate = 38

\* C8 as stated: revPAR equals total filtered revenue divided by
\* (active rooms x days in the selected range), 0 when that product is 0.
C8_RevParExactQuotient ==
    Done =>
        LET roomNights ==
                ActiveRoomCount * DaysCeil(dateRange.to - dateRange.from)
            rev == SumAmounts(bookings, InSelectedRange)
        IN  IF roomNights = 0 THEN result.overview.revPAR = 0
            ELSE result.overview.revPAR * roomNights = rev

\* C8 amended: revPAR is that quotient rounded to the nearest integer, the
\* days in the range being its length to - from in days, rounded up.
C8_RevParRounded ==
    Done =>
        LET roomNights ==
                ActiveRoomCount * DaysCeil(dateRange.to - dateRange.from)
            rev == SumAmounts(bookings, InSelectedRange)
        IN  IF roomNights = 0 THEN result.overview.revPAR = 0
            ELSE result.overview.revPAR = Nearest(rev, roomNights)

\* C8 witness: 50 of revenue, two active rooms, a range of a day and a
\* tick (two days): 12.5 rounds to 13
C8_Witness ==
    /\ Done
    /\ ActiveRoomCount = 2
    /\ dateRange.to - dateRange.from = Day + 1
    /\ result.overview.totalRevenue = 50
    /\ result.overview.revPAR = 13

\* the case of C9: one booking of 100 that checks in inside a range whose
\* `to` is one day after `from`, and one active room
OneBookingOneRoomOneDay ==
    /\ Done
    /\ dateRange.to = dateRange.from + Day
    /\ Len(bookings) = 1
    /\ bookings[1].totalAmount = 100
    /\ 1 \in InSelectedRange
    /\ ActiveRoomCount = 1

AllHundred ==
    /\ result.overview.occupancyRate = 100
    /\ result.overview.averageDailyRate = 100
    /\ result.overview.revPAR = 100

\* C9 as stated: a single booking of 100 that checks in on the one day of a
\* 1-day range, and one active room, give occupancyRate = 100,
\* averageDailyRate = 100 and revPAR = 100.
C9_ExampleAllHundred == OneBookingOneRoomOneDay => AllHundred

\* C9 amended: so it is when the stay is of one night at most (the
\* check-out absent, or no more than a day after the check-in).
C9_ExampleOneNight ==
    (OneBookingOneRoomOneDay /\ RoomNights(1) = 1) => AllHundred

\* C9 witness: the booking of the example, with no check-out date
C9_Witness ==
    /\ OneBookingOneRoomOneDay
    /\ bookings[1].checkInDate = dateRange.from
    /\ bookings[1].checkOutDate = NaN
    /\ AllHundred

\* the guests of the filtered bookings, their booking counts and spend
GuestsInRange == {bookings[i].email : i \in InSelectedRange} \ {""}

BookingsOf(email) == {i \in InSelectedRange : bookings[i].email = email}

ListedGuests == {result.topGuests[j].email : j \in 1..Len(result.topGuests)}

\* C10: topGuests has at most 10 entries, one per distinct guest email
\* among the filtered bookings (before truncation) with that guest's
\* booking count and summed spend, in order of non-increasing totalSpent,
\* so that no omitted guest spent more than a listed one.
C10_TopGuests ==
    Done =>
        LET tg == result.topGuests
        IN  /\ Len(tg) <= 10
            /\ Len(tg) = (IF Cardinality(GuestsInRange) < 10
                           THEN Cardinality(GuestsInRange) ELSE 10)
            /\ ListedGuests \subseteq GuestsInRange
            /\ Cardinality(ListedGuests) = Len(tg)
            /\ \A j \in 1..Len(tg) :
                  /\ tg[j].bookings = Cardinality(BookingsOf(tg[j].email))
                  /\ tg[j].totalSpent =
                        SumAmounts(bookings, BookingsOf(tg[j].email))
            /\ \A j \in 1..(Len(tg) - 1) :
                  tg[j].totalSpent >= tg[j + 1].totalSpent
            /\ \A e \in GuestsInRange \ ListedGuests :
                  \A j \in 1..Len(tg) :
                      SumAmounts(bookings, BookingsOf(e)) <= tg[j].totalSpent

\* C10 witness: eleven guests, the last to book spending most; ten are
\* listed, the first spent more than the last, one guest is left out
C10_Witness ==
    /\ Done
    /\ Cardinality(GuestsInRange) = 11
    /\ Len(result.topGuests) = 10
    /\ result.topGuests[1].totalSpent > result.topGuests[10].totalSpent
    /\ bookings[Len(bookings)].totalAmount = 2
    /\ GuestsInRange \ ListedGuests # {}

\* the bookings the aggregator compares against: check-in between
\* previousPeriodStart and previousPeriodEnd as lines 582-583 compute them
\* (`to - from` days and one day before `from`; none when the start is no
\* valid date)
ComparedPeriod ==
    LET start == dateRange.from - (dateRange.to - dateRange.from) * Day
    IN  IF start < 0 - TimeClip THEN {}
        ELSE CheckedInBetween(start, dateRange.from - Day)

AllValuesZero(series) == \A i \in 1..Len(series) : series[i].value = 0

\* every count, sum and list taken from the filtered bookings is 0 or empty
BookingCountsZero ==
    /\ result.overview.totalBookings = 0
    /\ result.overview.totalRevenue = 0
    /\ result.overview.totalGuests = 0
    /\ result.overview.occupancyRate = 0
    /\ result.overview.averageDailyRate = 0
    /\ result.overview.revPAR = 0
    /\ result.recentBookings = <<>>
    /\ result.bookingTrends = <<>>
    /\ result.revenueTrends = <<>>
    /\ result.bookingSources = <<>>
    /\ result.bookingStatus = <<>>
    /\ result.revenueByRoomType = <<>>
    /\ result.topGuests = <<>>
    /\ AllValuesZero(result.roomTypePerformance)
    /\ AllValuesZero(result.guestTypes)
    /\ AllValuesZero(result.stayDuration)
    /\ AllValuesZero(result.guestSatisfaction)
    /\ AllValuesZero(result.guestDemographics)
    /\ AllValuesZero(result.paymentMethods)
    /\ ActiveRoomCount > 0 =>
          \A n \in 1..Len(result.occupancyTimeline) :
              result.occupancyTimeline[n].occupancy = 0

\* C11 as stated: when no booking has its check-in inside the selected
\* range, every derived count of the result is 0 and totalBookingsChange
\* and totalRevenueChange are 0, whatever bookings lie outside the range.
C11_EmptyRangeAllZero ==
    (Done /\ InSelectedRange = {}) =>
        /\ BookingCountsZero
        /\ result.overview.totalBookingsChange = 0
        /\ result.overview.totalRevenueChange = 0

\* C11 amended: every count derived from the filtered bookings is 0;
\* totalBookingsChange is 0 when the compared period holds no booking and
\* -100 when it holds one, totalRevenueChange is 0 when the revenue of the
\* compared period is 0 and -100 otherwise.
C11_EmptyRangeChanges ==
    (Done /\ InSelectedRange = {}) =>
        /\ BookingCountsZero
        /\ result.overview.totalBookingsChange =
              (IF ComparedPeriod = {} THEN 0 ELSE 0 - 100)
        /\ result.overview.totalRevenueChange =
              (IF SumAmounts(bookings, ComparedPeriod) = 0 THEN 0 ELSE 0 - 100)

\* C11 witness: no booking in the range, one in the compared period: both
\* changes are -100
C11_Witness ==
    /\ Done
    /\ InSelectedRange = {}
    /\ Cardinality(ComparedPeriod) = 1
    /\ BookingCountsZero
    /\ result.overview.totalBookingsChange = 0 - 100
    /\ result.overview.totalRevenueChange = 0 - 100

\* C12: the aggregator is a pure function: two runs on identical bookings,
\* rooms, hotel and date range return identical dashboard objects, in
\* every field, floorOccupancy and occupancyTimeline included.
C12_PureFunction ==
    (Done /\ again # Pending) => again = result

\* the day steps of the timeline: the k with from + k days not after `to`
TimelineSteps ==
    {k \in 0..TimeClip : dateRange.from + k * Day <= dateRange.to}

\* the filtered bookings whose stay holds the instant t
CoveringBookings(t) ==
    {i \in InSelectedRange :
        /\ bookings[i].checkOutDate # NaN
        /\ bookings[i].checkInDate <= t
        /\ t <= bookings[i].checkOutDate}

\* C13: the occupancy timeline has exactly one point for each day from
\* `from` through `to` (from, from + 1 day, ... while not after `to`); a
\* point's value is a pseudo-random fill (a value of 0..99) only when no
\* room is active; with at least one active room each point is determined
\* by the inputs, as the rounded percentage of the filtered bookings whose
\* stay covers that day over the active rooms, and so a second run returns
\* the same timeline.
C13_Timeline ==
    Done =>
        LET tl == result.occupancyTimeline
        IN  /\ Len(tl) = Cardinality(TimelineSteps)
            /\ \A n \in 1..Len(tl) :
                  LET t == dateRange.from + (n - 1) * Day
                  IN  /\ (n - 1) \in TimelineSteps
                      /\ tl[n].date = FormatMonthDay(t)
                      /\ ActiveRoomCount > 0 =>
                            tl[n].occupancy =
                               NearestPercent(Cardinality(CoveringBookings(t)),
                                              ActiveRoomCount)
                      /\ ActiveRoomCount = 0 => tl[n].occupancy \in 0..99
            /\ (again # Pending /\ ActiveRoomCount > 0) =>
                  again.occupancyTimeline = tl

\* C13 witness: two active rooms, a range of two day steps, one stay that
\* covers the first day only: 50 percent, then 0, in both runs
C13_Witness ==
    /\ Done
    /\ again # Pending
    /\ ActiveRoomCount = 2
    /\ Len(result.occupancyTimeline) = 2
    /\ Cardinality(CoveringBookings(dateRange.from)) = 1
    /\ CoveringBookings(dateRange.from + Day) = {}
    /\ result.occupancyTimeline[1].occupancy = 50
    /\ result.occupancyTimeline[2].occupancy = 0

\* `series` has one entry per key of `keys` (a function from records to
\* their key) and the entry's value is the number of records with that key
CountsByKey(series, keys) ==
    /\ \A i, j \in 1..Len(series) :
          series[i].name = series[j].name => i = j
    /\ {series[i].name : i \in 1..Len(series)} = {keys[x] : x \in DOMAIN keys}
    /\ \A i \in 1..Len(series) :
          series[i].value =
             Cardinality({x \in DOMAIN keys : keys[x] = series[i].name})

RECURSIVE SumValues(_)
SumValues(series) ==
    IF series = <<>> THEN 0 ELSE series[1].value + SumValues(Tail(series))

StatusLabels ==
    << [name |-> "Available",   status |-> "AVAILABLE"],
       [name |-> "Occupied",    status |-> "OCCUPIED"],
       [name |-> "Maintenance", status |-> "MAINTENANCE"],
       [name |-> "Cleaning",    status |-> "CLEANING"] >>

\* C14: each category distribution (room type, booking source, booking
\* status, room status) holds one entry per key with the number of records
\* having that key, so its values sum to the number of records grouped
\* (rooms for room type and room status, filtered bookings for source and
\* status); a booking without bookingSource is counted under "Direct".
C14_Distributions ==
    Done =>
        /\ CountsByKey(result.roomTypeDistribution,
                       [i \in 1..Len(rooms) |-> rooms[i].roomType])
        /\ SumValues(result.roomTypeDistribution) = Len(rooms)
        /\ CountsByKey(result.bookingSources,
                       [i \in InSelectedRange |->
                           IF bookings[i].bookingSource = "" THEN "Direct"
                           ELSE bookings[i].bookingSource])
        /\ SumValues(result.bookingSources) = Cardinality(InSelectedRange)
        /\ CountsByKey(result.bookingStatus,
                       [i \in InSelectedRange |-> bookings[i].bookingStatus])
        /\ SumValues(result.bookingStatus) = Cardinality(InSelectedRange)
        /\ Len(result.roomStatus) = Len(StatusLabels)
        /\ \A k \in 1..Len(StatusLabels) :
              /\ result.roomStatus[k].name = StatusLabels[k].name
              /\ result.roomStatus[k].value =
                    Cardinality({i \in 1..Len(rooms) :
                        rooms[i].status = StatusLabels[k].status})
        /\ SumValues(result.roomStatus) = Len(rooms)

\* C14 witness: two filtered bookings of different status, one without
\* source and one booked "Direct": one source entry, "Direct" with 2, and
\* two status entries
C14_Witness ==
    /\ Done
    /\ InSelectedRange = {1, 2}
    /\ bookings[1].bookingSource = ""
    /\ bookings[2].bookingSource = "Direct"
    /\ result.bookingSources = <<[name |-> "Direct", value |-> 2]>>
    /\ Len(result.bookingStatus) = 2

\* C15: totalBookingsChange is 0 whenever the previous period (the
\* bookings the aggregator compares against) contains no booking, and
\* totalRevenueChange is 0 whenever that period's revenue sum is 0; both
\* are numbers for every input, no division by zero occurs.
C15_ZeroBaselineZeroChange ==
    Done =>
        /\ ComparedPeriod = {} => result.overview.totalBookingsChange = 0
        /\ SumAmounts(bookings, ComparedPeriod) = 0 =>
              result.overview.totalRevenueChange = 0
        /\ result.overview.totalBookingsChange \in (0 - 100000)..100000
        /\ result.overview.totalRevenueChange \in (0 - 100000)..100000

\* C15 witness: a booking of 100 in the range and one booking without
\* amount in the compared period: the revenue baseline is 0 and so is
\* totalRevenueChange
C15_Witness ==
    /\ Done
    /\ Cardinality(InSelectedRange) = 1
    /\ Cardinality(ComparedPeriod) = 1
    /\ SumAmounts(bookings, ComparedPeriod) = 0
    /\ result.overview.totalRevenue = 100
    /\ result.overview.totalBookingsChange = 0
    /\ result.overview.totalRevenueChange = 0

\* the requests of the booking view that failed: rejected, not parsable, or
\* answered without data (GraphQL errors)
FailedPolls == {i \in 1..Len(polls) : polls[i].stage \in {"nodata", "reject"}}

FailedLists == {i \in 1..Len(lists) : lists[i].stage \in {"nodata", "reject"}}

FailedRooms ==
    {i \in 1..Len(roomFetches) :
        roomFetches[i].stage \in {"nodata", "reject"}}

\* C16: in every view every failed request (network failure, a response
\* carrying GraphQL errors, a parse failure) is caught, logged and surfaced
\* to the user as a toast; no failure goes unnotified.  For the booking
\* view: as many error toasts and as many logged errors as failed requests.
C16_FailuresNotified ==
    LET failed == Cardinality(FailedPolls) + Cardinality(FailedLists)
                      + Cardinality(FailedRooms)
    IN  /\ toasts.error = failed
        /\ pollErrors = failed

C18_PollDetectsNewBookings ==
    [][ \A i \in 1..Len(polls) :
          (polls[i].stage = "flight" /\ polls'[i].stage = "data") =>
              LET refetched == Len(lists') = Len(lists) + 1
                  notified  == toasts'.new = toasts.new + 1
              IN  /\ bookingCount' = serverCount
                  /\ Len(lists') \in {Len(lists), Len(lists) + 1}
                  /\ toasts'.new \in {toasts.new, toasts.new + 1}
                  /\ serverCount > bookingCount =>
                        /\ hasNewBookings'
                        /\ refetched <=> isAutoRefreshEnabled
                        /\ notified <=> ~isAutoRefreshEnabled
                  /\ serverCount <= bookingCount =>
                        ~refetched /\ ~notified
      ]_vars

\* C19: requests to the bookings-count endpoint are issued only when the
\* polling is set up for a selected hotel and then on each tick of the
\* 30-second timer; a change of bookingCount or of the auto-refresh switch
\* does not by itself cause a count request.  As steps: a step that sends a
\* count request is the selection of the hotel, or changes nothing but the
\* list of requests (a tick).
C19_PollsOnSetupAndTicksOnly ==
    [][ Len(polls') > Len(polls) =>
          \/ ~hotelSelected /\ hotelSelected'
          \/ /\ hotelSelected
             /\ UNCHANGED <<hotelSelected, serverCount, bookingCount,
                            isAutoRefreshEnabled, hasNewBookings,
                            calendarBookings, bookingsRef, bookingsLoading,
                            lists, roomFetches, roomDetails, fills, toasts,
                            pollErrors>>
      ]_vars

\* C20: dashboard fetches are not cancelled when a new fetch is triggered:
\* a call that is started leaves the earlier calls as they are, and a call
\* whose three responses are in puts its result on the dashboard whatever
\* was started or applied since.  So there is an interleaving in which the
\* response of an earlier fetch is applied after that of a later one and,
\* all requests complete, dashboardData holds the result of the superseded
\* date range (the witness).
C20_NoCancellation ==
    [][ /\ Len(fetches') > Len(fetches) =>
              SubSeq(fetches', 1, Len(fetches)) = fetches
        /\ \A i \in 1..Len(fetches) :
              (fetches[i].stage = "bookings" /\ fetches'[i].stage = "applied")
                 => \E seed \in Seeds :
                        dashboardData' = processGraphQLData(
                            hotels, rooms, bookings, fetches[i].range, seed)
      ]_vars

\* C20 witness: two calls for different date ranges, both applied and none
\* in flight; the dashboard shows the result of the first call's range, not
\* that of the range selected last
C20_Witness ==
    /\ Len(fetches) = 2
    /\ fetches[1].stage = "applied"
    /\ fetches[2].stage = "applied"
    /\ fetches[1].range # fetches[2].range
    /\ uiRange = fetches[2].range
    /\ \E seed \in Seeds :
          dashboardData = processGraphQLData(
              hotels, rooms, bookings, fetches[1].range, seed)
    /\ \A seed \in Seeds :
          dashboardData # processGraphQLData(
              hotels, rooms, bookings, fetches[2].range, seed)

\* the rooms the claim places on floor i: those recorded there and, on
\* floor 1, those whose record has no floor
RoomsOnFloor(i) ==
    {k \in 1..Len(rooms) :
        rooms[k].floor = i \/ (i = 1 /\ rooms[k].floor = NaN)}

\* C23: in every view that groups, filters or aggregates rooms by floor
\* (booking calendar floor filter, dashboard floor occupancy, room grid), a
\* room whose floor is absent in the backend record is treated as being on
\* floor 1.  For the dashboard: the occupancy of a floor is the rounded
\* share of OCCUPIED rooms among the rooms placed on it.
C23_AbsentFloorIsFloorOne ==
    Done =>
        \A i \in DOMAIN result.floorOccupancy :
            RoomsOnFloor(i) # {} =>
                result.floorOccupancy[i].value =
                    NearestPercent(
                        Cardinality({k \in RoomsOnFloor(i) :
                                        rooms[k].status = "OCCUPIED"}),
                        Cardinality(RoomsOnFloor(i)))

\* C25: with the token state fixed, following the access guard's redirects
\* from any starting path reaches an allowed path after at most one
\* redirect: /login is allowed for a request without a token and /dashboard
\* for a request with a token, so there is no redirect loop; no path is both
\* protected and auth-only.
C25_AtMostOneRedirect ==
    /\ hops <= 1
    /\ (hops = 1 /\ response # Pending) => response.kind = "next"
    /\ middleware(LoginPath, "none").kind = "next"
    /\ middleware(DashboardPath, "jwt").kind = "next"
    /\ ~(isProtectedPath(pathname) /\ isAuthRoute(pathname))

\* C25 witness: a request without a token for a protected path was
\* redirected, the browser asked for /login and was let through
C25_Witness ==
    /\ hops = 1
    /\ token = "none"
    /\ pathname = LoginPath
    /\ response # Pending
    /\ response.kind = "next"

\* C26: in the analytics dashboard isLoading is true in every state in
\* which at least one fetchDashboardData call is still in flight, also when
\* several fetches overlap, and it is false once no fetch is in flight.
C26_LoadingWhileInFlight ==
    LET inFlight == {i \in 1..Len(fetches) : InFlight(fetches[i])}
    IN  /\ inFlight # {} => isLoading
        /\ (fetches # <<>> /\ inFlight = {}) => ~isLoading

\* C22: when a booking mutation (status change, stay extension, payment
\* collection, room-charge addition) receives a response carrying errors or
\* the request fails, the local bookingData is left unchanged, a failure
\* toast is shown, and the mutation's loading flag (statusLoading,
\* extendLoading, collectPaymentLoading) ends false.
C22_FailedMutationKeepsData ==
    [][ \A i \in 1..Len(mutations) :
          (/\ mutations[i].stage = "flight"
           /\ mutations'[i].stage \in {"errors", "reject"}) =>
              /\ bookingData' = bookingData
              /\ detailToasts'.error = detailToasts.error + 1
              /\ detailToasts'.success = detailToasts.success
              /\ mutations[i].kind = "status" => ~statusLoading'
              /\ mutations[i].kind = "extend" => ~extendLoading'
              /\ mutations[i].kind = "payment" => ~collectPaymentLoading'
      ]_vars

\* C22 witness: a status change was answered with errors: the booking is
\* as it was loaded, one failure toast, statusLoading false
C22_Witness ==
    /\ Len(mutations) = 1
    /\ mutations[1].kind = "status"
    /\ mutations[1].stage = "errors"
    /\ bookingData = mutations[1].snap
    /\ bookingData.bookingStatus = "CONFIRMED"
    /\ detailToasts.error = 1
    /\ ~statusLoading

\* the sum of the amounts that are numbers
RECURSIVE SumNumeric(_)
SumNumeric(amounts) ==
    IF amounts = <<>> THEN 0
    ELSE (IF Head(amounts) = NoAmount THEN 0 ELSE Head(amounts))
         + SumNumeric(Tail(amounts))

\* C24: every monetary summation in the client (total revenue, per-day
\* revenue, revenue by room type, per-guest spend, payments collected,
\* total additional charges, balance to collect) treats an absent or
\* non-numeric amount as 0, so the result is always a number and equals the
\* sum of the numeric amounts only.  For the booking details view: the
\* three totals it shows.
C24_SumsTreatNonNumbersAsZero ==
    (~loading /\ bookingData # Null) =>
        /\ paymentsCollected(bookingData) = SumNumeric(bookingData.payments)
        /\ SumCharges(bookingData.roomCharges)
              = SumNumeric(bookingData.roomCharges)
        /\ balanceToCollect(bookingData)
              = SumNumeric(<<bookingData.totalAmount>>)
                  - SumNumeric(bookingData.payments)

\* the fields of the booking the four mutations write
MutatedFields ==
    {"bookingStatus", "checkOutDate", "baseAmount", "taxAmount",
     "totalAmount", "paymentStatus", "payments", "roomCharges"}

\* C28: in the booking details view, when two mutations on the same booking
\* are in flight at the same time and both succeed, then after both
\* responses are applied bookingData reflects the effects of both, in
\* either arrival order; no successful mutation's local update is lost.
\* Two calls overlap exactly when they were made in renders with the same
\* bookingData; reflecting both means agreeing with the backend's booking
\* on every field the mutations write.
C28_ConcurrentMutationsBothApplied ==
    (/\ Len(mutations) = 2
     /\ mutations[1].stage = "data"
     /\ mutations[2].stage = "data"
     /\ mutations[1].snap = mutations[2].snap) =>
        \A f \in MutatedFields : bookingData[f] = serverBooking[f]

\* C21: in the booking calendar view, when the bookings fetch fails (thrown
\* error or a response without data.bookings), the bookings state and the
\* bookingsRef copy are replaced by locally generated mock bookings and
\* bookingCount is set to their number; the view is neither left empty nor
\* left with the previously fetched bookings.
C21_FailedFetchShowsMock ==
    [][ \A i \in 1..Len(lists) :
          (/\ lists[i].stage = "bookings"
           /\ lists'[i].stage \in {"nodata", "reject"}) =>
              /\ calendarBookings'.src = "mock"
              /\ calendarBookings'.len > 0
              /\ bookingsRef' = calendarBookings'
              /\ bookingCount' = calendarBookings'.len
      ]_vars

\* C21 witness: the first fetch showed the backend's bookings, the fetch of
\* a refresh was rejected, and the view holds the mock bookings
C21_Witness ==
    /\ Len(lists) = 2
    /\ lists[1].stage = "done"
    /\ lists[1].len > 0
    /\ lists[2].stage = "reject"
    /\ calendarBookings.src = "mock"
    /\ bookingsRef = calendarBookings
    /\ bookingCount = calendarBookings.len

\* C27: in the booking calendar view, after a manual refresh in which both
\* the bookings fetch and the rooms fetch succeed, the bookings state holds
\* the bookings of that latest bookings response (the same set of bookings
\* as bookingsRef.current) whichever of the two responses arrives first;
\* the rooms response never replaces the bookings list with one derived
\* from an older bookings snapshot.  As steps: when the rooms response of a
\* refresh arrives with data after the bookings response of that refresh
\* did, the bookings state holds the bookings of bookingsRef.current.
C27_RoomsResponseKeepsLatestBookings ==
    [][ \A i \in 1..Len(roomFetches) :
          (/\ roomFetches[i].stage = "flight"
           /\ roomFetches'[i].stage = "data"
           /\ i > 1
           /\ lists[roomFetches[i].list].stage \in {"details", "done"}) =>
              calendarBookings' = bookingsRef'
      ]_vars

\* C29: the roomDetails cache of the booking calendar view only grows: once
\* the details of a room have been stored under its id, no later update (a
\* batch fill by fetchAllRoomDetails or a single fill after a booking
\* click, in any interleaving) removes that entry.
C29_RoomDetailsOnlyGrow ==
    [][roomDetails \subseteq roomDetails']_vars

\* C30: in the booking calendar view with auto-refresh enabled and no user
\* interaction, if the backend's booking count and booking list stop
\* changing, then eventually polling stops triggering bookings-list
\* re-fetches: a count poll triggers a re-fetch only when bookings were
\* created since the last fetch, also when the count endpoint's value
\* differs from the length of the fetched (or mock fallback) list.  As
\* steps, for a poll that compares with the bookingCount held now, with no
\* refresh and no switch clicked so far and every fetchBookings call ended:
\* it triggers a re-fetch only if a booking was created after the last list
\* response.
C30_PollRefetchesOnlyNewBookings ==
    [][ \A i \in 1..Len(polls) :
          (/\ polls[i].stage = "flight"
           /\ polls'[i].stage = "data"
           /\ Len(lists') > Len(lists)
           /\ polls[i].count = bookingCount
           /\ isAutoRefreshEnabled
           /\ toasts.info = 0
           /\ Len(roomFetches) = 1
           /\ \A j \in 1..Len(lists) :
                 lists[j].stage \in {"done", "nodata", "reject"}) =>
              createdSinceFetch
      ]_vars

====
